---- MODULE Spec2Model ----
(***************************************************************************)
(* A model of the edb bytecode debugger: the interpreter loop Context.Run, *)
(* the opcode table and exec functions, the hook chain with breakpoints    *)
(* and tracers, and the disassembler.  Words are WordBits wide instead of  *)
(* 256 bits; memory, code and call data are byte sequences.  Go slices and *)
(* pcs are 0-based, TLA+ sequences 1-based: byte i of a slice is s[i+1].   *)
(***************************************************************************)
EXTENDS Integers, Sequences, FiniteSets, TLC

\* ------------------------------------------------------------------ bounds
WordBits == 8
MaxSlack == 7
MaxSteps == 2
MaxDepth == 3
MaxStack == 12
\* the longest byte string handed to the disassembler on its own
MaxCode == 4

\* ------------------------------------------------------------------- words
RECURSIVE Pow2(_)
Pow2(n) == IF n <= 0 THEN 1 ELSE 2 * Pow2(n - 1)

WordMod == Pow2(WordBits)
Wrap(x) == x % WordMod
Min(a, b) == IF a < b THEN a ELSE b

RECURSIVE Zeros(_)
Zeros(n) == IF n <= 0 THEN << >> ELSE <<0>> \o Zeros(n - 1)

\* data[lo:hi] of Go, 0-based, lo <= hi <= len(data)
Slice(data, lo, hi) == SubSeq(data, lo + 1, hi)

\* common.RightPadBytes
RightPadBytes(bs, l) == IF l <= Len(bs) THEN bs ELSE bs \o Zeros(l - Len(bs))

\* uint256.Int.SetBytes: big-endian bytes to a word
RECURSIVE SetBytes(_)
SetBytes(bs) ==
    IF bs = << >> THEN 0
    ELSE Wrap(SetBytes(SubSeq(bs, 1, Len(bs) - 1)) * 256 + bs[Len(bs)])

\* the n low-order bytes of w, big-endian
RECURSIVE BytesOf(_, _)
BytesOf(w, n) == IF n <= 0 THEN << >> ELSE BytesOf(w \div 256, n - 1) \o <<w % 256>>

\* uint256.Int.WriteToSlice into a 32-byte window
Bytes32(w) == BytesOf(w, 32)

RECURSIVE BitAnd(_, _)
BitAnd(x, y) ==
    IF x = 0 \/ y = 0 THEN 0
    ELSE (x % 2) * (y % 2) + 2 * BitAnd(x \div 2, y \div 2)

RECURSIVE BitOr(_, _)
BitOr(x, y) ==
    IF x = 0 THEN y ELSE IF y = 0 THEN x
    ELSE (IF x % 2 = 1 \/ y % 2 = 1 THEN 1 ELSE 0) + 2 * BitOr(x \div 2, y \div 2)

RECURSIVE BitXor(_, _)
BitXor(x, y) ==
    IF x = 0 THEN y ELSE IF y = 0 THEN x
    ELSE ((x + y) % 2) + 2 * BitXor(x \div 2, y \div 2)

BitNot(x) == WordMod - 1 - x
Signed(x) == IF x >= WordMod \div 2 THEN x - WordMod ELSE x
Abs(i) == IF i < 0 THEN 0 - i ELSE i

RECURSIVE ExpMod(_, _)
ExpMod(b, e) == IF e = 0 THEN Wrap(1) ELSE Wrap(b * ExpMod(b, e - 1))

\* uint256 Lsh / Rsh / SRsh by n bits
RECURSIVE Lsh(_, _)
Lsh(v, n) == IF n = 0 \/ v = 0 THEN v ELSE Lsh(Wrap(2 * v), n - 1)
RECURSIVE Rsh(_, _)
Rsh(v, n) == IF n = 0 \/ v = 0 THEN v ELSE Rsh(v \div 2, n - 1)
RECURSIVE SRshI(_, _)
SRshI(i, n) == IF n = 0 \/ i = 0 \/ i = 0 - 1 THEN i ELSE SRshI((i - (i % 2)) \div 2, n - 1)
SRsh(v, n) == Wrap(SRshI(Signed(v), n) + WordMod)

SDivW(n, d) ==
    IF d = 0 THEN 0
    ELSE LET q == Abs(Signed(n)) \div Abs(Signed(d))
         IN  IF (Signed(n) < 0) = (Signed(d) < 0) THEN Wrap(q) ELSE Wrap(WordMod - q)
SModW(n, d) ==
    IF d = 0 THEN 0
    ELSE LET r == Abs(Signed(n)) % Abs(Signed(d))
         IN  IF Signed(n) < 0 THEN Wrap(WordMod - r) ELSE r
ExtendSign(x, b) ==
    LET t == (b + 1) * 8
    IN  IF b > 30 \/ t >= WordBits THEN x
        ELSE LET low == x % Pow2(t)
             IN  IF low >= Pow2(t - 1) THEN WordMod - Pow2(t) + low ELSE low
ByteAt(val, n) == IF n >= 32 THEN 0 ELSE Bytes32(val)[n + 1]
Bool(b) == IF b THEN 1 ELSE 0

\* util.Sha3 (Keccak-256) is an external function; the model uses a fixed
\* digest of the input: an injective-enough fold into one word.
RECURSIVE Sha3(_)
Sha3(bs) == IF bs = << >> THEN 197 % WordMod
            ELSE Wrap(31 * Sha3(SubSeq(bs, 1, Len(bs) - 1)) + bs[Len(bs)] + 1)

\* ----------------------------------------------------------------- opcodes
STOP == 0
ADD == 1
MUL == 2
SUB == 3
DIV == 4
SDIV == 5
MOD == 6
SMOD == 7
ADDMOD == 8
MULMOD == 9
EXP == 10
SIGNEXTEND == 11
LT == 16
GT == 17
SLT == 18
SGT == 19
EQ == 20
ISZERO == 21
AND == 22
OR == 23
XOR == 24
NOT == 25
BYTE == 26
SHL == 27
SHR == 28
SAR == 29
SHA3 == 32
ADDRESS == 48
BALANCE == 49
ORIGIN == 50
CALLER == 51
CALLVALUE == 52
CALLDATALOAD == 53
CALLDATASIZE == 54
CALLDATACOPY == 55
CODESIZE == 56
CODECOPY == 57
GASPRICE == 58
EXTCODESIZE == 59
EXTCODECOPY == 60
RETURNDATASIZE == 61
RETURNDATACOPY == 62
EXTCODEHASH == 63
BLOCKHASH == 64
COINBASE == 65
TIMESTAMP == 66
NUMBER == 67
DIFFICULTY == 68
GASLIMIT == 69
CHAINID == 70
SELFBALANCE == 71
BASEFEE == 72
POP == 80
MLOAD == 81
MSTORE == 82
MSTORE8 == 83
SLOAD == 84
SSTORE == 85
JUMP == 86
JUMPI == 87
PC == 88
MSIZE == 89
GAS == 90
JUMPDEST == 91
PUSH1 == 96
PUSH32 == 127
DUP1 == 128
DUP16 == 143
SWAP1 == 144
SWAP16 == 159
LOG0 == 160
LOG4 == 164
CREATE == 240
CALL == 241
CALLCODE == 242
RETURN == 243
DELEGATECALL == 244
CREATE2 == 245
STATICCALL == 250
REVERT == 253
ASSERT == 254
SELFDESTRUCT == 255

\* the rows of OpTable: <<opcode, OpSize, NStackIn, NStackOut>>
OpRows ==
    << <<0, 0, 0, 0>>, <<1, 0, 2, 1>>, <<2, 0, 2, 1>>, <<3, 0, 2, 1>>, <<4, 0, 2, 1>>, 
       <<5, 0, 2, 1>>, <<6, 0, 2, 1>>, <<7, 0, 2, 1>>, <<8, 0, 2, 1>>, <<9, 0, 2, 1>>, 
       <<10, 0, 2, 1>>, <<11, 0, 2, 1>>, <<16, 0, 2, 1>>, <<17, 0, 2, 1>>, <<18, 0, 2, 1>>, 
       <<19, 0, 2, 1>>, <<20, 0, 2, 1>>, <<21, 0, 1, 1>>, <<22, 0, 2, 1>>, <<23, 0, 2, 1>>, 
       <<24, 0, 2, 1>>, <<25, 0, 1, 1>>, <<26, 0, 2, 1>>, <<27, 0, 2, 1>>, <<28, 0, 2, 1>>, 
       <<29, 0, 2, 1>>, <<32, 0, 2, 1>>, <<48, 0, 0, 1>>, <<49, 0, 1, 1>>, <<50, 0, 0, 1>>, 
       <<51, 0, 0, 1>>, <<52, 0, 0, 1>>, <<53, 0, 0, 1>>, <<54, 0, 0, 1>>, <<55, 0, 3, 0>>, 
       <<56, 0, 0, 1>>, <<57, 0, 3, 0>>, <<58, 0, 0, 1>>, <<59, 0, 0, 1>>, <<60, 0, 4, 0>>, 
       <<61, 0, 0, 1>>, <<62, 0, 3, 0>>, <<63, 0, 1, 1>>, <<64, 0, 1, 1>>, <<65, 0, 0, 1>>, 
       <<66, 0, 0, 1>>, <<67, 0, 0, 1>>, <<68, 0, 0, 1>>, <<69, 0, 0, 1>>, <<70, 0, 0, 1>>, 
       <<71, 0, 0, 1>>, <<72, 0, 0, 1>>, <<80, 0, 1, 0>>, <<81, 0, 1, 1>>, <<82, 0, 2, 0>>, 
       <<83, 0, 2, 0>>, <<84, 0, 1, 1>>, <<85, 0, 2, 0>>, <<86, 0, 1, 0>>, <<87, 0, 2, 0>>, 
       <<88, 0, 0, 1>>, <<89, 0, 0, 1>>, <<90, 0, 0, 1>>, <<91, 0, 0, 0>>, <<96, 1, 0, 1>>, 
       <<97, 2, 0, 1>>, <<98, 3, 0, 1>>, <<99, 4, 0, 1>>, <<100, 5, 0, 1>>, <<101, 6, 0, 1>>, 
       <<102, 7, 0, 1>>, <<103, 8, 0, 1>>, <<104, 9, 0, 1>>, <<105, 10, 0, 1>>, <<106, 11, 0, 1>>, 
       <<107, 12, 0, 1>>, <<108, 13, 0, 1>>, <<109, 14, 0, 1>>, <<110, 15, 0, 1>>, <<111, 16, 0, 1>>, 
       <<112, 17, 0, 1>>, <<113, 18, 0, 1>>, <<114, 19, 0, 1>>, <<115, 20, 0, 1>>, <<116, 21, 0, 1>>, 
       <<117, 22, 0, 1>>, <<118, 23, 0, 1>>, <<119, 24, 0, 1>>, <<120, 25, 0, 1>>, <<121, 26, 0, 1>>, 
       <<122, 27, 0, 1>>, <<123, 28, 0, 1>>, <<124, 29, 0, 1>>, <<125, 30, 0, 1>>, <<126, 31, 0, 1>>, 
       <<127, 32, 0, 1>>, <<128, 0, 0, 1>>, <<129, 0, 0, 1>>, <<130, 0, 0, 1>>, <<131, 0, 0, 1>>, 
       <<132, 0, 0, 1>>, <<133, 0, 0, 1>>, <<134, 0, 0, 1>>, <<135, 0, 0, 1>>, <<136, 0, 0, 1>>, 
       <<137, 0, 0, 1>>, <<138, 0, 0, 1>>, <<139, 0, 0, 1>>, <<140, 0, 0, 1>>, <<141, 0, 0, 1>>, 
       <<142, 0, 0, 1>>, <<143, 0, 0, 1>>, <<144, 0, 0, 0>>, <<145, 0, 0, 0>>, <<146, 0, 0, 0>>, 
       <<147, 0, 0, 0>>, <<148, 0, 0, 0>>, <<149, 0, 0, 0>>, <<150, 0, 0, 0>>, <<151, 0, 0, 0>>, 
       <<152, 0, 0, 0>>, <<153, 0, 0, 0>>, <<154, 0, 0, 0>>, <<155, 0, 0, 0>>, <<156, 0, 0, 0>>, 
       <<157, 0, 0, 0>>, <<158, 0, 0, 0>>, <<159, 0, 0, 0>>, <<160, 0, 2, 0>>, <<161, 0, 3, 0>>, 
       <<162, 0, 4, 0>>, <<163, 0, 5, 0>>, <<164, 0, 6, 0>>, <<240, 0, 0, 0>>, <<241, 0, 7, 0>>, 
       <<242, 0, 0, 0>>, <<243, 0, 2, 0>>, <<244, 0, 6, 0>>, <<245, 0, 0, 0>>, <<250, 0, 6, 0>>, 
       <<253, 0, 2, 0>>, <<254, 0, 1, 0>>, <<255, 0, 1, 0>> >>

OpCodes == {OpRows[i][1] : i \in DOMAIN OpRows}
OpRow(o) == OpRows[CHOOSE i \in DOMAIN OpRows : OpRows[i][1] = o]
OpTable == [o \in OpCodes |-> [OpCode |-> o, OpSize |-> OpRow(o)[2],
                               NStackIn |-> OpRow(o)[3], NStackOut |-> OpRow(o)[4]]]
IsPush(o) == o >= PUSH1 /\ o <= PUSH32
IsDup(o) == o >= DUP1 /\ o <= DUP16
IsSwap(o) == o >= SWAP1 /\ o <= SWAP16
IsLog(o) == o >= LOG0 /\ o <= LOG4

\* ------------------------------------------------------------------ memory
\* Memory.store is a Go slice: its length, and a capacity that the runtime
\* chooses when append reallocates (slack extra bytes, all of them zero).
NewMemory == [store |-> << >>, cap |-> 0]

MemLen(m) == Len(m.store)

Resize(m, size, slack) ==
    IF MemLen(m) < size
    THEN [store |-> m.store \o Zeros(size - MemLen(m)),
          cap   |-> IF size <= m.cap THEN m.cap ELSE size + slack]
    ELSE m

\* copy(dst[offset:offset+size], value)
CopyInto(store, offset, size, value) ==
    LET n == Min(size, Len(value))
    IN  Slice(store, 0, offset) \o Slice(value, 0, n) \o Slice(store, offset + n, Len(store))

MemSet(m, offset, size, value, slack) ==
    IF size > 0
    THEN LET r == IF offset + size > MemLen(m) THEN Resize(m, offset + size, slack) ELSE m
         IN  [r EXCEPT !.store = CopyInto(r.store, offset, size, value)]
    ELSE m

MemSet32(m, offset, val, slack) ==
    LET r == IF offset + 32 > MemLen(m) THEN Resize(m, offset + 32, slack) ELSE m
    IN  [r EXCEPT !.store = CopyInto(r.store, offset, 32, Bytes32(val))]

\* m.store[offset : offset+size]: a Go slice expression may reach past the
\* length up to the capacity, and panics past the capacity.
GetPtr(m, offset, size) ==
    IF size = 0 THEN [panic |-> FALSE, bytes |-> << >>]
    ELSE IF MemLen(m) > offset
    THEN IF offset + size > m.cap
         THEN [panic |-> TRUE, bytes |-> << >>]
         ELSE [panic |-> FALSE,
               bytes |-> Slice(m.store \o Zeros(m.cap - MemLen(m)), offset, offset + size)]
    ELSE [panic |-> FALSE, bytes |-> << >>]

GetCopy(m, offset, size) ==
    IF size = 0 THEN [panic |-> FALSE, bytes |-> << >>]
    ELSE IF MemLen(m) > offset
    THEN IF offset + size > m.cap
         THEN [panic |-> TRUE, bytes |-> << >>]
         ELSE [panic |-> FALSE,
               bytes |-> Slice(m.store \o Zeros(m.cap - MemLen(m)), offset, offset + size)]
    ELSE [panic |-> FALSE, bytes |-> << >>]

\* getData: a zero-padded, overflow-safe slice of data
getData(data, start, size) ==
    LET length == Len(data)
        st     == IF start > length THEN length ELSE start
        en     == IF st + size > length THEN length ELSE st + size
    IN  RightPadBytes(Slice(data, st, en), size)

\* ------------------------------------------------------------ disassembler
\* lines 80-113: the scan from pc, sequence being the Lines appended so far
RECURSIVE DisasmFrom(_, _, _)
DisasmFrom(code, pc, sequence) ==
    IF pc >= Len(code) THEN sequence
    ELSE LET opCode == code[pc + 1]
         IN  IF opCode \notin OpCodes THEN sequence
             ELSE IF pc + 1 + OpTable[opCode].OpSize > Len(code) THEN sequence
             ELSE DisasmFrom(code, pc + 1 + OpTable[opCode].OpSize,
                     Append(sequence,
                            [Pc |-> pc, LineNum |-> Len(sequence), Op |-> opCode,
                             Data |-> Slice(code, pc + 1, pc + 1 + OpTable[opCode].OpSize)]))

\* line 109: a.mapPc[pc] = line for every appended Line; a later Line
\* replaces an earlier one with the same pc
MapPcOf(sequence) ==
    [pc \in { sequence[i].Pc : i \in DOMAIN sequence } |->
        sequence[CHOOSE i \in DOMAIN sequence :
                    /\ sequence[i].Pc = pc
                    /\ \A j \in DOMAIN sequence : sequence[j].Pc = pc => j <= i]]

\* what Disasm leaves in the Asm when the scan returns
Scanned(sequence) == [panic |-> FALSE, sequence |-> sequence, mapPc |-> MapPcOf(sequence)]

\* the scan of the first end bytes; a negative end is a slice expression
\* out of range
DisasmUpTo(code, end) ==
    IF end < 0 THEN [panic |-> TRUE, sequence |-> << >>, mapPc |-> MapPcOf(<< >>)]
    ELSE Scanned(DisasmFrom(Slice(code, 0, end), 0, << >>))

\* the length read from the last two bytes of the code (big endian)
MetaLen(code) == code[Len(code) - 1] * 256 + code[Len(code)]

\* a disassembler that scans the whole code, metadata included
Disasm_whole(code) == DisasmUpTo(code, Len(code))

\* Asm.Disasm: strips the metadata block, then scans; the strip panics when
\* the length read from the last two bytes exceeds the code.
Disasm(code) ==
    DisasmUpTo(code, IF Len(code) > 2 THEN Len(code) - MetaLen(code) - 2 ELSE Len(code))

NilAsm == [set |-> FALSE, sequence |-> << >>, mapPc |-> MapPcOf(<< >>)]

\* Asm.LineAtPc: the Line mapPc has for pc, if it has one
HasLine(asm, pc) == pc \in DOMAIN asm.mapPc
LineAtPc(asm, pc) == asm.mapPc[pc]

\* ------------------------------------------------------------------ errors
NoErr == [kind |-> "nil", detail |-> 0, src |-> 0]
Err(kind, detail, src) == [kind |-> kind, detail |-> detail, src |-> src]

\* --------------------------------------------------------------- contracts
NilBalance == 0 - 1
ZeroAddress == 0
EmptyStorage == [x \in {} |-> 0]

NewContract == [Binary |-> << >>, Asm |-> NilAsm, Balance |-> NilBalance, Storage |-> EmptyStorage]

\* Code.Disasm on a Code without Asm, then line 63, where d is what
\* Asm.Disasm(code) did
CodeSetFresh(contract, code, d) ==
    IF d.panic
    THEN [panic |-> TRUE, contract |-> contract]
    ELSE [panic |-> FALSE,
          contract |-> [contract EXCEPT !.Binary = code,
                                        !.Asm = [set |-> TRUE, sequence |-> d.sequence,
                                                 mapPc |-> d.mapPc]]]

\* Code.Disasm / Code.Set: disassembles only when no Asm is there yet
CodeSet(contract, code) ==
    IF contract.Asm.set
    THEN [panic |-> FALSE, contract |-> [contract EXCEPT !.Binary = code]]
    ELSE CodeSetFresh(contract, code, Disasm(code))

\* the Berlin precompile addresses 0x01 .. 0x09
PrecompiledContractsBerlin == 1 .. 9

\* ----------------------------------------------------------------- context
NilAddr == 0 - 1

\* the transaction and block fields the getters push
SampleTx == [Origin |-> 20, GasPrice |-> 2]
SampleBlock == [Number |-> 100, Timestamp |-> 7, Difficulty |-> 3, Coinbase |-> 21,
                GasLimit |-> 9, BaseFee |-> 1]
SampleChain == [Id |-> 5]

\* the frame NewContext pushes, completed by the caller (This, Msg)
RootCall(this, sender, data) ==
    [root |-> TRUE, This |-> this, CodePtr |-> NilAddr, Sender |-> sender, Value |-> 0,
     Data |-> data, Gas |-> 0, Memory |-> NewMemory, Stack |-> << >>, Pc |-> 0,
     OuterReturnOffset |-> 0, OuterReturnSize |-> 0, InnerReturnVal |-> << >>]

\* Call.CodeAddress
CodeAddress(call) == IF call.CodePtr # NilAddr THEN call.CodePtr ELSE call.This

\* Context.Call: the top of the call stack
Top(c) == c.CallStack[Len(c.CallStack)]
WithTop(c, f) == [c EXCEPT !.CallStack[Len(c.CallStack)] = f]

\* ---------------------------------------------------- environment resolver
ensure_contract_at(c, addr) ==
    IF addr \in DOMAIN c.Contracts THEN c
    ELSE [c EXCEPT !.Contracts = @ @@ (addr :> NewContract)]

\* env is what the archive node answers in this step: ok = FALSE is a missing
\* client or a failed request, code / word the value it returns.
ensure_code(c, addr, env) ==
    LET c1 == ensure_contract_at(c, addr)
        ct == c1.Contracts[addr]
    IN  IF Len(ct.Binary) > 0
        THEN [c |-> c1, code |-> ct.Binary, err |-> NoErr, panic |-> FALSE]
        ELSE IF ~env.ok \/ addr = ZeroAddress
        THEN [c |-> c1, code |-> << >>, err |-> Err("no code", addr, 0), panic |-> FALSE]
        ELSE IF CodeSet(ct, env.code).panic
        THEN [c |-> c1, code |-> << >>, err |-> NoErr, panic |-> TRUE]
        ELSE [c |-> [c1 EXCEPT !.Contracts[addr] = CodeSet(ct, env.code).contract],
              code |-> env.code, err |-> NoErr, panic |-> FALSE]

ensure_balance(c, addr, env) ==
    LET c1 == ensure_contract_at(c, addr)
        ct == c1.Contracts[addr]
    IN  IF ct.Balance # NilBalance
        THEN [c |-> c1, val |-> ct.Balance, err |-> NoErr]
        ELSE IF ~env.ok \/ addr = ZeroAddress
        THEN [c |-> c1, val |-> 0, err |-> Err("no balance", addr, 0)]
        ELSE [c |-> [c1 EXCEPT !.Contracts[addr].Balance = env.word],
              val |-> env.word, err |-> NoErr]

ensure_storage(c, addr, slot, env) ==
    LET c1 == ensure_contract_at(c, addr)
        ct == c1.Contracts[addr]
    IN  IF slot \in DOMAIN ct.Storage
        THEN [c |-> c1, val |-> ct.Storage[slot], err |-> NoErr]
        ELSE IF ~env.ok \/ addr = ZeroAddress
        THEN [c |-> c1, val |-> 0, err |-> Err("no storage", addr, 0)]
        ELSE [c |-> [c1 EXCEPT !.Contracts[addr].Storage = @ @@ (slot :> env.word)],
              val |-> env.word, err |-> NoErr]

\* a resolver that asks the node for every block hash, cached or not
ensure_block_hash_refetch(c, blockNum, env) ==
    IF ~env.ok
    THEN [c |-> c, val |-> 0, err |-> Err("no block hash", blockNum, 0)]
    ELSE [c |-> [c EXCEPT !.BlockHashes = (blockNum :> env.word) @@ @],
          val |-> env.word, err |-> NoErr]

ensure_block_hash(c, blockNum, env) ==
    IF blockNum \in DOMAIN c.BlockHashes
    THEN [c |-> c, val |-> c.BlockHashes[blockNum], err |-> NoErr]
    ELSE IF ~env.ok
    THEN [c |-> c, val |-> 0, err |-> Err("no block hash", blockNum, 0)]
    ELSE [c |-> [c EXCEPT !.BlockHashes = @ @@ (blockNum :> env.word)],
          val |-> env.word, err |-> NoErr]

\* precompiled.Run of go-ethereum: 0x04 is the identity, 0x02 a digest; the
\* others succeed or reject their input as the environment decides.
PrecompiledRun(addr, input, env) ==
    IF addr = 4 THEN [err |-> NoErr, output |-> input]
    ELSE IF addr = 2 THEN [err |-> NoErr, output |-> Bytes32(Sha3(input))]
    ELSE IF env.ok THEN [err |-> NoErr, output |-> Bytes32(env.word)]
    ELSE [err |-> Err("Precompiled", addr, 0), output |-> << >>]

\* ---------------------------------------------------------- exec functions
\* An exec function returns the context it leaves, its error, whether it
\* panicked (the process aborts), and the frame it popped, if any.
Ok(c) == [c |-> c, err |-> NoErr, panic |-> FALSE, popped |-> << >>]
Fail(c, e) == [c |-> c, err |-> e, panic |-> FALSE, popped |-> << >>]
Panicked(c) == [c |-> c, err |-> NoErr, panic |-> TRUE, popped |-> << >>]

PeekI(s, n) == s[Len(s) - n]
PopN(s, n) == SubSeq(s, 1, Len(s) - n)
SetStack(c, stk) == WithTop(c, [Top(c) EXCEPT !.Stack = stk])
Push(c, w) == SetStack(c, Append(Top(c).Stack, w))

\* the stack items an exec function pops or peeks; a shorter stack makes
\* Stack.Pop / Stack.PeekI index out of range
Touches(op) ==
    CASE op \in {ADD, MUL, SUB, DIV, SDIV, MOD, SMOD, EXP, SIGNEXTEND, LT, GT, SLT, SGT, EQ,
                 AND, OR, XOR, BYTE, SHL, SHR, SAR, SHA3, MSTORE, MSTORE8, SSTORE, JUMPI,
                 RETURN, REVERT} -> 2
      [] op \in {ADDMOD, MULMOD, CALLDATACOPY, CODECOPY, RETURNDATACOPY} -> 3
      [] op \in {ISZERO, NOT, CALLDATALOAD, EXTCODESIZE, EXTCODEHASH, BLOCKHASH, POP, MLOAD,
                 SLOAD, JUMP, SELFDESTRUCT} -> 1
      [] op = EXTCODECOPY -> 4
      [] op = CALL -> 7
      [] op \in {DELEGATECALL, STATICCALL} -> 6
      [] IsDup(op) -> op - DUP1 + 1
      [] IsSwap(op) -> op - SWAP1 + 2
      [] IsLog(op) -> op - LOG0 + 2
      [] OTHER -> 0

\* opAdd .. opByte, opSHL, opSHR, opSAR: x is popped, y is peeked and overwritten
\* Int.Uint64(): the low limb of the word.  The model's word has WordBits
\* bits where the program's has 256, and its low limb has half of them
\* where the program's has 64; in both the limb can hold the width.
Uint64(x) == x % Pow2(WordBits \div 2)

\* shifts that take the amount from the low limb and never clamp
ShiftValue_truncated(op, shift, value) ==
    CASE op = SHL -> Lsh(value, Uint64(shift))
      [] op = SHR -> Rsh(value, Uint64(shift))
      [] op = SAR -> SRsh(value, Uint64(shift))

\* opSHL, opSHR, opSAR: shift.LtUint64(256) and shift.GtUint64(256) compare
\* the whole word with the width of a word
ShiftValue(op, shift, value) ==
    CASE op = SHL -> IF shift = Uint64(shift) /\ Uint64(shift) < WordBits
                     THEN Lsh(value, Uint64(shift)) ELSE 0
      [] op = SHR -> IF shift = Uint64(shift) /\ Uint64(shift) < WordBits
                     THEN Rsh(value, Uint64(shift)) ELSE 0
      [] op = SAR -> IF shift # Uint64(shift) \/ Uint64(shift) > WordBits
                     THEN (IF Signed(value) >= 0 THEN 0 ELSE WordMod - 1)
                     ELSE SRsh(value, Uint64(shift))

BinaryValue(op, x, y) ==
    CASE op = ADD -> Wrap(x + y)
      [] op = MUL -> Wrap(x * y)
      [] op = SUB -> Wrap(x - y + WordMod)
      [] op = DIV -> IF y = 0 THEN 0 ELSE x \div y
      [] op = SDIV -> SDivW(x, y)
      [] op = MOD -> IF y = 0 THEN 0 ELSE x % y
      [] op = SMOD -> SModW(x, y)
      [] op = EXP -> ExpMod(x, y)
      [] op = SIGNEXTEND -> ExtendSign(y, x)
      [] op = LT -> Bool(x < y)
      [] op = GT -> Bool(x > y)
      [] op = SLT -> Bool(Signed(x) < Signed(y))
      [] op = SGT -> Bool(Signed(x) > Signed(y))
      [] op = EQ -> Bool(x = y)
      [] op = AND -> BitAnd(x, y)
      [] op = OR -> BitOr(x, y)
      [] op = XOR -> BitXor(x, y)
      [] op = BYTE -> ByteAt(y, x)
      [] op \in {SHL, SHR, SAR} -> ShiftValue(op, x, y)

opBinary(c, op) ==
    LET s == Top(c).Stack
    IN  Ok(SetStack(c, Append(PopN(s, 2), BinaryValue(op, PeekI(s, 0), PeekI(s, 1)))))

opIszero(c) ==
    LET s == Top(c).Stack IN Ok(SetStack(c, Append(PopN(s, 1), Bool(PeekI(s, 0) = 0))))

opNot(c) ==
    LET s == Top(c).Stack IN Ok(SetStack(c, Append(PopN(s, 1), BitNot(PeekI(s, 0)))))

opAddmod(c) ==
    LET s == Top(c).Stack
        x == PeekI(s, 0)
        y == PeekI(s, 1)
        z == PeekI(s, 2)
    IN  Ok(SetStack(c, Append(PopN(s, 3), IF z = 0 THEN 0 ELSE (x + y) % z)))

opMulmod(c) ==
    LET s == Top(c).Stack
        x == PeekI(s, 0)
        y == PeekI(s, 1)
        z == PeekI(s, 2)
    IN  Ok(SetStack(c, Append(PopN(s, 3), IF z = 0 THEN 0 ELSE (x * y) % z)))

opSha3(c) ==
    LET f == Top(c)
        s == f.Stack
        data == GetPtr(f.Memory, PeekI(s, 0), PeekI(s, 1))
    IN  IF data.panic THEN Panicked(SetStack(c, PopN(s, 1)))
        ELSE Ok(SetStack(c, Append(PopN(s, 2), Sha3(data.bytes))))

\* opAddress, opOrigin, opCaller, opCallValue, opCallDataSize, opGasprice,
\* opCoinbase, opTimestamp, opNumber, opDifficulty, opGasLimit, opChainID,
\* opBaseFee, opPc, opMsize, opGas, opReturnDataSize: push one value
GetterValue(c, op) ==
    LET f == Top(c)
    IN  CASE op = ADDRESS -> f.This
          [] op = ORIGIN -> SampleTx.Origin
          [] op = CALLER -> f.Sender
          [] op = CALLVALUE -> f.Value
          [] op = CALLDATASIZE -> Len(f.Data)
          [] op = GASPRICE -> SampleTx.GasPrice
          [] op = COINBASE -> SampleBlock.Coinbase
          [] op = TIMESTAMP -> SampleBlock.Timestamp
          [] op = NUMBER -> SampleBlock.Number
          [] op = DIFFICULTY -> SampleBlock.Difficulty
          [] op = GASLIMIT -> SampleBlock.GasLimit
          [] op = CHAINID -> SampleChain.Id
          [] op = BASEFEE -> SampleBlock.BaseFee
          [] op = PC -> f.Pc
          [] op = MSIZE -> MemLen(f.Memory)
          [] op = GAS -> f.Gas
          [] op = RETURNDATASIZE -> Len(f.InnerReturnVal)

opGetter(c, op) == Ok(Push(c, Wrap(GetterValue(c, op))))

opCallDataLoad(c) ==
    LET f == Top(c)
        s == f.Stack
    IN  Ok(SetStack(c, Append(PopN(s, 1), SetBytes(getData(f.Data, PeekI(s, 0), 32)))))

opCallDataCopy(c, env) ==
    LET f == Top(c)
        s == f.Stack
        memOffset == PeekI(s, 0)
        dataOffset == PeekI(s, 1)
        length == PeekI(s, 2)
    IN  Ok(WithTop(c, [f EXCEPT !.Stack = PopN(s, 3),
                                !.Memory = MemSet(@, memOffset, length,
                                                  getData(f.Data, dataOffset, length), env.slack)]))

opReturnDataCopy(c, env) ==
    LET f == Top(c)
        s == f.Stack
        memOffset == PeekI(s, 0)
        dataOffset == PeekI(s, 1)
        length == PeekI(s, 2)
        end == dataOffset + length
        c1 == SetStack(c, PopN(s, 3))
    IN  IF Len(f.InnerReturnVal) < end
        THEN Fail(c1, Err("ReturnDataOutOfBounds", 0, 0))
        ELSE Ok(WithTop(c1, [Top(c1) EXCEPT !.Memory =
                   MemSet(@, memOffset, length, Slice(f.InnerReturnVal, dataOffset, end),
                          env.slack)]))

opExtCodeSize(c, env) ==
    LET s == Top(c).Stack
        r == ensure_code(c, PeekI(s, 0), env)
    IN  IF r.panic THEN Panicked(r.c)
        ELSE IF r.err # NoErr THEN Fail(r.c, r.err)
        ELSE Ok(SetStack(r.c, Append(PopN(s, 1), Wrap(Len(r.code)))))

opCodeSize(c, env) ==
    LET r == ensure_code(c, Top(c).This, env)
    IN  IF r.panic THEN Panicked(r.c)
        ELSE IF r.err # NoErr THEN Fail(r.c, r.err)
        ELSE Ok(Push(r.c, Wrap(Len(r.code))))

opCodeCopy(c, env) ==
    LET f == Top(c)
        s == f.Stack
        memOffset == PeekI(s, 0)
        codeOffset == PeekI(s, 1)
        length == PeekI(s, 2)
        c1 == SetStack(c, PopN(s, 3))
        r == ensure_code(c1, f.This, env)
    IN  IF r.panic THEN Panicked(r.c)
        ELSE IF r.err # NoErr THEN Fail(r.c, r.err)
        ELSE Ok(WithTop(r.c, [Top(r.c) EXCEPT !.Memory =
                   MemSet(@, memOffset, length, getData(r.code, codeOffset, length), env.slack)]))

opExtCodeCopy(c, env) ==
    LET f == Top(c)
        s == f.Stack
        a == PeekI(s, 0)
        memOffset == PeekI(s, 1)
        codeOffset == PeekI(s, 2)
        length == PeekI(s, 3)
        c1 == SetStack(c, PopN(s, 4))
        r == ensure_code(c1, a, env)
    IN  IF r.panic THEN Panicked(r.c)
        ELSE IF r.err # NoErr THEN Fail(r.c, r.err)
        ELSE Ok(WithTop(r.c, [Top(r.c) EXCEPT !.Memory =
                   MemSet(@, memOffset, length, getData(r.code, codeOffset, length), env.slack)]))

opExtCodeHash(c, env) ==
    LET s == Top(c).Stack
        r == ensure_code(c, PeekI(s, 0), env)
    IN  IF r.panic THEN Panicked(r.c)
        ELSE IF r.err # NoErr THEN Fail(r.c, r.err)
        ELSE Ok(SetStack(r.c, Append(PopN(s, 1), Sha3(r.code))))

opBlockhash(c, env) ==
    LET s == Top(c).Stack
        num == PeekI(s, 0)
        upper == SampleBlock.Number
        lower == IF upper < 257 THEN 0 ELSE upper - 256
        r == ensure_block_hash(c, num, env)
    IN  IF num >= lower /\ num < upper
        THEN IF r.err # NoErr THEN Fail(r.c, r.err)
             ELSE Ok(SetStack(r.c, Append(PopN(s, 1), r.val)))
        ELSE Ok(SetStack(c, Append(PopN(s, 1), 0)))

opSelfBalance(c, env) ==
    LET r == ensure_balance(c, Top(c).This, env)
    IN  IF r.err # NoErr THEN Fail(r.c, r.err) ELSE Ok(Push(r.c, r.val))

opPop(c) == Ok(SetStack(c, PopN(Top(c).Stack, 1)))

opMload(c) ==
    LET f == Top(c)
        s == f.Stack
        data == GetPtr(f.Memory, PeekI(s, 0), 32)
    IN  IF data.panic THEN Panicked(c)
        ELSE Ok(SetStack(c, Append(PopN(s, 1), SetBytes(data.bytes))))

opMstore(c, env) ==
    LET f == Top(c)
        s == f.Stack
    IN  Ok(WithTop(c, [f EXCEPT !.Stack = PopN(s, 2),
                                !.Memory = MemSet32(@, PeekI(s, 0), PeekI(s, 1), env.slack)]))

opMstore8(c, env) ==
    LET f == Top(c)
        s == f.Stack
    IN  Ok(WithTop(c, [f EXCEPT !.Stack = PopN(s, 2),
                                !.Memory = MemSet(@, PeekI(s, 0), 1, <<PeekI(s, 1) % 256>>,
                                                  env.slack)]))

opSload(c, env) ==
    LET f == Top(c)
        s == f.Stack
        r == ensure_storage(c, f.This, PeekI(s, 0), env)
    IN  IF r.err # NoErr THEN Fail(r.c, r.err)
        ELSE Ok(SetStack(r.c, Append(PopN(s, 1), r.val)))

\* ctx.Contract() is Contracts[This]; a missing entry is a nil dereference
opSstore(c) ==
    LET f == Top(c)
        s == f.Stack
        slot == PeekI(s, 0)
        val == PeekI(s, 1)
        c1 == SetStack(c, PopN(s, 2))
    IN  IF f.This \notin DOMAIN c.Contracts THEN Panicked(c1)
        ELSE Ok([c1 EXCEPT !.Contracts[f.This].Storage =
                    [k \in DOMAIN @ \cup {slot} |-> IF k = slot THEN val ELSE @[k]]])

\* Context.Code: the code of the current frame's code address
CodeOf(c) == c.Contracts[CodeAddress(Top(c))]

\* a JUMP that moves the pc before it finds the target out of range
opJump_setsPcFirst(c) ==
    LET s == Top(c).Stack
        pos == PeekI(s, 0)
        c1 == WithTop(c, [Top(c) EXCEPT !.Stack = PopN(s, 1), !.Pc = pos])
    IN  IF pos >= Len(CodeOf(c).Binary) THEN Fail(c1, Err("InvalidJump", 0, 0))
        ELSE Ok(c1)

opJump(c) ==
    LET s == Top(c).Stack
        pos == PeekI(s, 0)
        c1 == SetStack(c, PopN(s, 1))
    IN  IF pos >= Len(CodeOf(c).Binary) THEN Fail(c1, Err("InvalidJump", 0, 0))
        ELSE Ok(WithTop(c1, [Top(c1) EXCEPT !.Pc = pos]))

opJumpi(c) ==
    LET s == Top(c).Stack
        pos == PeekI(s, 0)
        cond == PeekI(s, 1)
        c1 == SetStack(c, PopN(s, 2))
    IN  IF cond # 0
        THEN IF pos >= Len(CodeOf(c).Binary) THEN Fail(c1, Err("InvalidJump", 0, 0))
             ELSE Ok(WithTop(c1, [Top(c1) EXCEPT !.Pc = pos]))
        ELSE Ok(WithTop(c1, [Top(c1) EXCEPT !.Pc = @ + 1]))

makePush(n, c) ==
    LET f == Top(c)
        code == CodeOf(c).Binary
    IN  IF f.Pc + 1 + n > Len(code) THEN Fail(c, Err("opPushN not enough data", 0, 0))
        ELSE Ok(WithTop(c, [f EXCEPT !.Stack = Append(@, SetBytes(Slice(code, f.Pc + 1, f.Pc + 1 + n))),
                                     !.Pc = @ + n]))

makeDup(size, c) == Ok(Push(c, PeekI(Top(c).Stack, size - 1)))

makeSwap(size, c) ==
    LET s == Top(c).Stack
        n == size + 1
    IN  Ok(SetStack(c, [s EXCEPT ![Len(s) - n + 1] = s[Len(s)], ![Len(s)] = s[Len(s) - n + 1]]))

makeLog(size, c) == Ok(SetStack(c, PopN(Top(c).Stack, 2 + size)))

\* do_opcall, entered with the operands already popped
do_opcall(c, addr, value, inOffset, inSize, retOffset, retSize, env) ==
    LET f == Top(c)
        input == GetPtr(f.Memory, inOffset, inSize)
        pre == PrecompiledRun(addr, input.bytes, env)
        r == ensure_code(c, addr, env)
        newCall == [root |-> FALSE, This |-> addr, CodePtr |-> NilAddr, Sender |-> f.This,
                    Value |-> value, Data |-> input.bytes, Gas |-> f.Gas,
                    Memory |-> NewMemory, Stack |-> << >>, Pc |-> 0,
                    OuterReturnOffset |-> retOffset, OuterReturnSize |-> retSize,
                    InnerReturnVal |-> << >>]
    IN  IF input.panic THEN Panicked(c)
        ELSE IF addr \in PrecompiledContractsBerlin
        THEN IF pre.err # NoErr THEN Fail(c, pre.err)
             ELSE Ok(WithTop(c, [f EXCEPT !.InnerReturnVal = pre.output,
                                          !.Memory = MemSet(@, retOffset, retSize, pre.output,
                                                            env.slack),
                                          !.Stack = Append(@, 1)]))
        ELSE IF r.panic THEN Panicked(r.c)
        ELSE IF r.err # NoErr THEN Fail(r.c, r.err)
        ELSE Ok([r.c EXCEPT !.CallStack = Append(@, newCall)])

\* opCall without the transfer case of lines 881-887
opCall_alwaysDescend(c, env) ==
    LET s == Top(c).Stack
        c1 == SetStack(c, PopN(s, 7))
    IN  do_opcall(c1, PeekI(s, 1), PeekI(s, 2), PeekI(s, 3), PeekI(s, 4),
                  PeekI(s, 5), PeekI(s, 6), env)

opCall(c, env) ==
    LET s == Top(c).Stack
        c1 == SetStack(c, PopN(s, 7))
    IN  IF PeekI(s, 4) = 0 THEN Ok(Push(c1, 1))
        ELSE do_opcall(c1, PeekI(s, 1), PeekI(s, 2), PeekI(s, 3), PeekI(s, 4),
                       PeekI(s, 5), PeekI(s, 6), env)

opStaticCall(c, env) ==
    LET s == Top(c).Stack
        c1 == SetStack(c, PopN(s, 6))
    IN  do_opcall(c1, PeekI(s, 1), 0, PeekI(s, 2), PeekI(s, 3), PeekI(s, 4), PeekI(s, 5), env)

opDelegateCall(c, env) ==
    LET s == Top(c).Stack
        toAddr == PeekI(s, 1)
        inOffset == PeekI(s, 2)
        inSize == PeekI(s, 3)
        retOffset == PeekI(s, 4)
        retSize == PeekI(s, 5)
        c1 == SetStack(c, PopN(s, 6))
        r == ensure_code(c1, toAddr, env)
        currCall == Top(r.c)
        args == GetPtr(currCall.Memory, inOffset, inSize)
        newCall == [root |-> FALSE, This |-> currCall.This, CodePtr |-> toAddr,
                    Sender |-> currCall.Sender, Value |-> currCall.Value,
                    Data |-> args.bytes, Gas |-> currCall.Gas,
                    Memory |-> NewMemory, Stack |-> << >>, Pc |-> 0,
                    OuterReturnOffset |-> retOffset, OuterReturnSize |-> retSize,
                    InnerReturnVal |-> << >>]
    IN  IF r.panic THEN Panicked(r.c)
        ELSE IF r.err # NoErr THEN Fail(r.c, r.err)
        ELSE IF args.panic THEN Panicked(r.c)
        ELSE Ok([r.c EXCEPT !.CallStack = Append(@, newCall)])

opReturn(c, env) ==
    LET s == Top(c).Stack
        offset == PeekI(s, 0)
        size == PeekI(s, 1)
        c1 == SetStack(c, PopN(s, 2))
        call == Top(c1)
        output == GetPtr(call.Memory, offset, size)
        depth == Len(c1.CallStack)
        outer == c1.CallStack[depth - 1]
    IN  IF output.panic THEN Panicked(c1)
        ELSE IF depth > 1
        THEN [c |-> [c1 EXCEPT !.CallStack =
                        Append(SubSeq(@, 1, depth - 2),
                               [outer EXCEPT !.InnerReturnVal = output.bytes,
                                             !.Memory = MemSet(@, call.OuterReturnOffset,
                                                               call.OuterReturnSize,
                                                               output.bytes, env.slack),
                                             !.Stack = Append(@, 1)])],
              err |-> NoErr, panic |-> FALSE, popped |-> <<call>>]
        ELSE Ok([c1 EXCEPT !.IsDone = TRUE])

opRevert(c) ==
    LET s == Top(c).Stack
        c1 == SetStack(c, PopN(s, 2))
        ret == GetPtr(Top(c).Memory, PeekI(s, 0), PeekI(s, 1))
    IN  IF ret.panic THEN Panicked(c1) ELSE Fail(c1, Err("Reverted", 0, 0))

\* a STOP that pops the frame at any depth, the root frame included
opStop_anyDepth(c) ==
    LET depth == Len(c.CallStack)
        outer == c.CallStack[depth - 1]
    IN  IF depth > 1
        THEN [c |-> [c EXCEPT !.CallStack =
                        Append(SubSeq(@, 1, depth - 2), [outer EXCEPT !.Stack = Append(@, 1)])],
              err |-> NoErr, panic |-> FALSE, popped |-> <<Top(c)>>]
        ELSE [c |-> [c EXCEPT !.CallStack = << >>],
              err |-> NoErr, panic |-> FALSE, popped |-> <<Top(c)>>]

opStop(c) ==
    LET depth == Len(c.CallStack)
        outer == c.CallStack[depth - 1]
    IN  IF depth > 1
        THEN [c |-> [c EXCEPT !.CallStack =
                        Append(SubSeq(@, 1, depth - 2), [outer EXCEPT !.Stack = Append(@, 1)])],
              err |-> NoErr, panic |-> FALSE, popped |-> <<Top(c)>>]
        ELSE Ok([c EXCEPT !.IsDone = TRUE])

opSuicide(c) ==
    LET s == Top(c).Stack
    IN  Fail(SetStack(c, PopN(s, 1)), Err("opSuicide", PeekI(s, 0), 0))

\* Operation.Exec of OpTable[op]
Exec(c, op, env) ==
    IF Len(Top(c).Stack) < Touches(op) THEN Panicked(c)
    ELSE CASE op \in {ADD, MUL, SUB, DIV, SDIV, MOD, SMOD, EXP, SIGNEXTEND, LT, GT, SLT, SGT,
                      EQ, AND, OR, XOR, BYTE, SHL, SHR, SAR} -> opBinary(c, op)
           [] op = ISZERO -> opIszero(c)
           [] op = NOT -> opNot(c)
           [] op = ADDMOD -> opAddmod(c)
           [] op = MULMOD -> opMulmod(c)
           [] op = SHA3 -> opSha3(c)
           [] op \in {ADDRESS, ORIGIN, CALLER, CALLVALUE, CALLDATASIZE, GASPRICE, COINBASE,
                      TIMESTAMP, NUMBER, DIFFICULTY, GASLIMIT, CHAINID, BASEFEE, PC, MSIZE,
                      GAS, RETURNDATASIZE} -> opGetter(c, op)
           [] op = BALANCE -> Fail(c, Err("TODO", BALANCE, 0))
           [] op = CALLDATALOAD -> opCallDataLoad(c)
           [] op = CALLDATACOPY -> opCallDataCopy(c, env)
           [] op = CODESIZE -> opCodeSize(c, env)
           [] op = CODECOPY -> opCodeCopy(c, env)
           [] op = EXTCODESIZE -> opExtCodeSize(c, env)
           [] op = EXTCODECOPY -> opExtCodeCopy(c, env)
           [] op = RETURNDATACOPY -> opReturnDataCopy(c, env)
           [] op = EXTCODEHASH -> opExtCodeHash(c, env)
           [] op = BLOCKHASH -> opBlockhash(c, env)
           [] op = SELFBALANCE -> opSelfBalance(c, env)
           [] op = POP -> opPop(c)
           [] op = MLOAD -> opMload(c)
           [] op = MSTORE -> opMstore(c, env)
           [] op = MSTORE8 -> opMstore8(c, env)
           [] op = SLOAD -> opSload(c, env)
           [] op = SSTORE -> opSstore(c)
           [] op = JUMP -> opJump(c)
           [] op = JUMPI -> opJumpi(c)
           [] op = JUMPDEST -> Ok(c)
           [] IsPush(op) -> makePush(op - PUSH1 + 1, c)
           [] IsDup(op) -> makeDup(op - DUP1 + 1, c)
           [] IsSwap(op) -> makeSwap(op - SWAP1 + 1, c)
           [] IsLog(op) -> makeLog(op - LOG0, c)
           [] op \in {CREATE, CREATE2, CALLCODE, ASSERT} -> Fail(c, Err("TODO", op, 0))
           [] op = CALL -> opCall(c, env)
           [] op = DELEGATECALL -> opDelegateCall(c, env)
           [] op = STATICCALL -> opStaticCall(c, env)
           [] op = RETURN -> opReturn(c, env)
           [] op = REVERT -> opRevert(c)
           [] op = STOP -> opStop(c)
           [] op = SELFDESTRUCT -> opSuicide(c)

\* ------------------------------------------------------------------- hooks
\* A hook is a record of its type and fields.  src of the errors a hook
\* returns is its position in the chain: every errors.Wrap is a new value.
NewParamTracer ==
    [StackPre |-> << >>, StackPost |-> << >>, PcPre |-> 0, PcPost |-> 0,
     MemPre |-> << >>, MemPost |-> NewMemory]

\* symbolic.NewCall: a symbolic frame; Stack holds the kinds of its nodes,
\* List the Call, Precompiled and Return nodes of its trace, MemMap the
\* Memory nodes by key
NewCall(op, target) ==
    [OpCode |-> op, Target |-> target, Stack |-> << >>, List |-> << >>,
     MemMap |-> [k \in {} |-> 0]]

\* a node by its kind; a Const also by its value, and a node that MLOAD
\* derived also by the constants added to it, innermost first
SymNode(kind, val) == [kind |-> kind, val |-> val, add |-> << >>]
\* BinaryOp{ADD, X: n, Y: NewConst(delta)}
SymAdd(n, delta) == [n EXCEPT !.add = Append(@, delta)]

\* symbolic.Memory (part_002:424-429); Val is the kind of the value node, or
\* the string of its label
SymMemory(offset, val, vmOffset, vmBytes) ==
    [Offset |-> offset, Val |-> val, VmOffset |-> vmOffset, VmBytes |-> vmBytes]

\* m[lo:hi] of a cloned memory: the bytes past its length are the zeros of
\* the spare capacity
MemSlice(m, lo, hi) == Slice(m.store \o Zeros(m.cap - MemLen(m)), lo, hi)

NoHookState == [pt |-> NewParamTracer, CallStack |-> << >>]

BpPc(contract, pc) ==
    [type |-> "BpPc", Contract |-> contract, Pc |-> pc, OpCode |-> 0] @@ NoHookState
BpOpCode(contract, op) ==
    [type |-> "BpOpCode", Contract |-> contract, Pc |-> 0, OpCode |-> op] @@ NoHookState
ParamTracer ==
    [type |-> "ParamTracer", Contract |-> NilAddr, Pc |-> 0, OpCode |-> 0] @@ NoHookState
\* NewHighLevelTracer(ctx): one symbolic frame for the current concrete frame
NewHighLevelTracer(c) ==
    [type |-> "HighLevelTracer", Contract |-> NilAddr, Pc |-> 0, OpCode |-> 0,
     pt |-> NewParamTracer, CallStack |-> <<NewCall(CALL, Top(c).This)>>]

\* a breakpoint that fires at every pc from bp.Pc on
BpPcPreRun_fromPc(bp, i, call, line) ==
    IF bp.Contract # NilAddr /\ bp.Contract # CodeAddress(call) THEN NoErr
    ELSE IF line.Pc < bp.Pc THEN NoErr
    ELSE Err("breakpoint", bp.Pc, i)

BpPcPreRun(bp, i, call, line) ==
    IF bp.Contract # NilAddr /\ bp.Contract # CodeAddress(call) THEN NoErr
    ELSE IF line.Pc # bp.Pc THEN NoErr
    ELSE Err("breakpoint", bp.Pc, i)

BpOpCodePreRun(bp, i, call, line) ==
    IF bp.Contract # NilAddr /\ bp.Contract # CodeAddress(call) THEN NoErr
    ELSE IF line.Op # bp.OpCode THEN NoErr
    ELSE Err("breakpoint", bp.OpCode, i)

\* append(m[:0:0], m...): a copy with a capacity of its own
CloneMem(m, slack) ==
    [store |-> m.store, cap |-> IF MemLen(m) = 0 THEN 0 ELSE MemLen(m) + slack]

ParamTracerPreRun(pt, call, line, env) ==
    LET size == Len(call.Stack)
        nin == OpTable[line.Op].NStackIn
    IN  IF size < nin THEN [panic |-> TRUE, pt |-> pt]
        ELSE [panic |-> FALSE,
              pt |-> [pt EXCEPT !.PcPre = call.Pc,
                                !.StackPre = SubSeq(call.Stack, size - nin + 1, size),
                                !.MemPre = IF line.Op \in {SHA3, MLOAD, MSTORE, MSTORE8, CALL,
                                                           DELEGATECALL, STATICCALL}
                                           THEN call.Memory.store ELSE @]]

ParamTracerPostRun(pt, call, line, env) ==
    LET size == Len(call.Stack)
        nout == OpTable[line.Op].NStackOut
    IN  IF size < nout THEN [panic |-> TRUE, pt |-> pt]
        ELSE [panic |-> FALSE,
              pt |-> [pt EXCEPT !.PcPost = call.Pc,
                                !.StackPost = SubSeq(call.Stack, size - nout + 1, size),
                                !.MemPost = IF line.Op \in {SHA3, MLOAD, MSTORE, MSTORE8, CALL,
                                                            DELEGATECALL, STATICCALL, CODECOPY,
                                                            CALLDATACOPY, RETURNDATACOPY,
                                                            EXTCODECOPY, RETURN, REVERT}
                                            THEN CloneMem(call.Memory, env.slack) ELSE @]]

PTPreRun(h, ptr) == [h |-> [h EXCEPT !.pt = ptr.pt], err |-> NoErr, panic |-> ptr.panic]

\* hook.PreRun, by dynamic type
HookPreRun(h, i, call, line, env) ==
    CASE h.type = "BpPc" -> [h |-> h, err |-> BpPcPreRun(h, i, call, line), panic |-> FALSE]
      [] h.type = "BpOpCode" -> [h |-> h, err |-> BpOpCodePreRun(h, i, call, line), panic |-> FALSE]
      [] OTHER -> PTPreRun(h, ParamTracerPreRun(h.pt, call, line, env))

\* ------------------------------------------------------- HighLevelTracer
\* the kind of node PostRun pushes for the opcodes that pop n and push one
SymKind(op) ==
    CASE op \in {ADDRESS, BALANCE, ORIGIN, CALLER, CALLVALUE, CALLDATASIZE, CODESIZE, GASPRICE,
                 COINBASE, TIMESTAMP, NUMBER, DIFFICULTY, GASLIMIT, CHAINID, SELFBALANCE,
                 BASEFEE, GAS, PC, MSIZE} -> "NullaryOp"
      [] op \in {ISZERO, NOT, CALLDATALOAD, EXTCODESIZE, EXTCODEHASH, BLOCKHASH} -> "UnaryOp"
      [] op \in {ADD, MUL, SUB, DIV, SDIV, MOD, SMOD, EXP, SIGNEXTEND, LT, GT, SLT, SGT, EQ,
                 AND, OR, XOR, SHL, SHR, SAR, BYTE} -> "BinaryOp"
      [] op \in {ADDMOD, MULMOD} -> "TernaryOp"
      [] op = SHA3 -> "Sha3"
      [] op = MLOAD -> "Memory"
      [] op = SLOAD -> "Storage"
      [] op = RETURNDATASIZE -> "Label"
      [] IsPush(op) -> "Const"
      [] OTHER -> "none"

\* the symbolic operands PostRun pops for those opcodes
SymPops(op) ==
    CASE SymKind(op) = "UnaryOp" -> 1
      [] SymKind(op) = "BinaryOp" -> 2
      [] SymKind(op) = "TernaryOp" -> 3
      [] op \in {CALLDATACOPY, RETURNDATACOPY, CODECOPY} -> 3
      [] op \in {POP, MLOAD, SLOAD, JUMP} -> 1
      [] op \in {SHA3, MSTORE, MSTORE8, SSTORE, JUMPI} -> 2
      [] IsLog(op) -> 2 + (op - LOG0)
      [] OTHER -> 0

\* a push that puts the new frame in the place of the calling one
CallStackPush_inPlace(cs, newCall) == [cs EXCEPT ![Len(cs)] = newCall]
\* t.CallStack.Push(newCall)
CallStackPush(cs, newCall) == Append(cs, newCall)

\* line 156: the keys of the entries of mm whose bytes hold the 32 bytes at
\* offset
Windows(mm, offset) ==
    { k \in DOMAIN mm : /\ offset >= mm[k].VmOffset
                        /\ offset - mm[k].VmOffset + 32 <= Len(mm[k].VmBytes) }

\* lines 161-170: the Memory node built from the entry m
Derived(m, offset) ==
    SymMemory(SymAdd(m.Offset, offset - m.VmOffset), m.Val, offset,
              Slice(m.VmBytes, offset - m.VmOffset, Len(m.VmBytes)))

\* lines 177-186: no entry holds the offset; the slice of MemPre reaches
\* into the spare capacity of the clone or panics
UnknownMemory(offset, memPre, slack) ==
    [mem |-> SymMemory(SymNode("Const", offset), "Unknown_Memory", offset,
                       IF offset < Len(memPre) /\ offset + 32 <= Len(memPre) + slack
                       THEN Slice(memPre \o Zeros(slack), offset, offset + 32) ELSE << >>),
     bad |-> offset < Len(memPre) /\ offset + 32 > Len(memPre) + slack]

\* lines 147-188, the MLOAD case: the node pushed (mem), the map left and
\* whether a slice went out of range.  The search ranges over the map while
\* it adds the entry at offset to it: every window assigns mem, so the window
\* the range produces last (order.last) wins, and the range may produce the
\* added entry as well (order.again), which is then a window itself.
MLoad(mm, offset, memPre, order, slack) ==
    IF offset \in DOMAIN mm THEN [mem |-> mm[offset], mm |-> mm, bad |-> FALSE]
    ELSE IF Windows(mm, offset) = {}
    THEN [mem |-> UnknownMemory(offset, memPre, slack).mem, mm |-> mm,
          bad |-> UnknownMemory(offset, memPre, slack).bad]
    ELSE LET once == Derived(mm[order.last], offset)
             mem == IF order.again THEN Derived(once, offset) ELSE once
         IN  [mem |-> mem, mm |-> (offset :> mem) @@ mm, bad |-> FALSE]

\* the switch of HighLevelTracer.PostRun: the symbolic call stack it leaves,
\* the frame that was on top before it (self), its error, and whether a
\* stack or slice index went out of range
HLSwitch(t, vmCall, line, c, order, slack) ==
    LET cs == t.CallStack
        d == Len(cs)
        call == cs[d]
        st == call.Stack
        op == line.Op
        pre == t.pt.StackPre
        post == t.pt.MemPost
        Replaced(n, pushed, bad) ==
            LET nc == [call EXCEPT !.Stack = SubSeq(st, 1, Len(st) - n) \o pushed]
            IN  [cs |-> [cs EXCEPT ![d] = nc], self |-> nc, err |-> NoErr,
                 index |-> bad \/ Len(st) < n]
        \* call.MemMap[key] = mem, and the trace nodes added to call.List
        Stored(r, key, mem, traced) ==
            [r EXCEPT !.cs[d].MemMap = (key :> mem) @@ @, !.self.MemMap = (key :> mem) @@ @,
                      !.cs[d].List = @ \o traced, !.self.List = @ \o traced]
        Returned(n, bad) ==
            LET nc == [call EXCEPT !.Stack = SubSeq(st, 1, Len(st) - n)]
            IN  [cs |-> Append(SubSeq(cs, 1, d - 2),
                               [cs[d - 1] EXCEPT !.Stack = Append(@, "Const")]),
                 self |-> nc, err |-> NoErr, index |-> bad \/ Len(st) < n]
        Descended(n) ==
            LET nc == [call EXCEPT !.Stack = SubSeq(st, 1, Len(st) - n),
                                   !.List = Append(@, NewCall(op, CodeAddress(Top(c))))]
            IN  [cs |-> CallStackPush([cs EXCEPT ![d] = nc], NewCall(op, CodeAddress(Top(c)))),
                 self |-> nc, err |-> NoErr, index |-> Len(st) < n]
        nargs == IF op = CALL THEN 7 ELSE 6
        \* lines 322-341: the precompile branch reads the operands at the
        \* places they have for DELEGATECALL and STATICCALL
        inOffset == PeekI(pre, 2)
        retOffset == PeekI(pre, 4)
        retSize == PeekI(pre, 5)
        retMem == SymMemory(SymNode("Const", retOffset), "ReturnValue", retOffset,
                            IF retOffset + retSize > post.cap THEN << >>
                            ELSE MemSlice(post, retOffset, retOffset + retSize))
        \* lines 377-391: the return value in the memory of the outer frame
        outerMem(bytes) ==
            SymMemory(SymNode("Const", vmCall.OuterReturnOffset), "ReturnValue",
                      vmCall.OuterReturnOffset, bytes)
        \* lines 399-418: the node of RETURNDATACOPY and CODECOPY
        copied == SymMemory(SymNode("Const", PeekI(pre, 0)),
                            IF op = CODECOPY THEN "CodeCopy" ELSE "ReturnValue", PeekI(pre, 0),
                            IF PeekI(pre, 0) + PeekI(pre, 2) > post.cap THEN << >>
                            ELSE MemSlice(post, PeekI(pre, 0), PeekI(pre, 0) + PeekI(pre, 2)))
    IN  CASE op \in {CALL, DELEGATECALL, STATICCALL} ->
               IF op = CALL /\ PeekI(pre, 4) = 0 THEN Replaced(7, <<"Const">>, FALSE)
               ELSE IF PeekI(pre, 1) \in PrecompiledContractsBerlin
               THEN Stored(Replaced(nargs, <<"Const">>, retOffset + retSize > post.cap),
                           retOffset, retMem,
                           <<[kind |-> "Precompiled", To |-> PeekI(pre, 1),
                              Input |-> IF inOffset \in DOMAIN call.MemMap
                                        THEN <<call.MemMap[inOffset]>> ELSE << >>],
                             [kind |-> "Return", Memory |-> retMem]>>)
               ELSE Descended(nargs)
          [] op = STOP -> IF d > 1 THEN Returned(0, FALSE) ELSE Replaced(0, << >>, FALSE)
          [] op = RETURN ->
               IF d = 1 THEN Replaced(2, << >>, FALSE)
               ELSE LET r == Returned(2, GetCopy(Top(c).Memory, vmCall.OuterReturnOffset,
                                                 vmCall.OuterReturnSize).panic)
                    IN  [r EXCEPT !.cs[d - 1].MemMap =
                            (vmCall.OuterReturnOffset :>
                                outerMem(GetCopy(Top(c).Memory, vmCall.OuterReturnOffset,
                                                 vmCall.OuterReturnSize).bytes)) @@ @]
          [] IsDup(op) ->
               Replaced(0, IF Len(st) < op - DUP1 + 1 THEN << >>
                           ELSE <<PeekI(st, op - DUP1)>>, Len(st) < op - DUP1 + 1)
          [] IsSwap(op) ->
               LET n == op - SWAP1 + 2
               IN  IF Len(st) < n THEN Replaced(0, << >>, TRUE)
                   ELSE [cs |-> [cs EXCEPT ![d].Stack = [st EXCEPT ![Len(st) - n + 1] = st[Len(st)],
                                                                   ![Len(st)] = st[Len(st) - n + 1]]],
                         self |-> [call EXCEPT !.Stack = [st EXCEPT ![Len(st) - n + 1] = st[Len(st)],
                                                                    ![Len(st)] = st[Len(st) - n + 1]]],
                         err |-> NoErr, index |-> FALSE]
          [] op = MLOAD ->
               LET r == MLoad(call.MemMap, PeekI(pre, 0), t.pt.MemPre, order, slack)
                   nc == [call EXCEPT !.Stack = SubSeq(st, 1, Len(st) - 1) \o <<"Memory">>,
                                      !.MemMap = r.mm]
               IN  [cs |-> [cs EXCEPT ![d] = nc], self |-> nc, err |-> NoErr,
                    index |-> r.bad \/ Len(st) < 1]
          [] op \in {MSTORE, MSTORE8} ->
               LET bytes == GetCopy(vmCall.Memory, PeekI(pre, 0), IF op = MSTORE8 THEN 1 ELSE 32)
               IN  IF Len(st) < 2 THEN Replaced(2, << >>, TRUE)
                   ELSE Stored(Replaced(2, << >>, bytes.panic), PeekI(pre, 0),
                               SymMemory(SymNode(PeekI(st, 0), 0), PeekI(st, 1), PeekI(pre, 0),
                                         bytes.bytes),
                               << >>)
          [] op \in {RETURNDATACOPY, CODECOPY} ->
               Stored(Replaced(3, << >>, PeekI(pre, 0) + PeekI(pre, 2) > post.cap),
                      PeekI(pre, 1), copied, << >>)
          [] op \in {EXTCODECOPY, SELFDESTRUCT, CREATE, CREATE2, CALLCODE, ASSERT} ->
               [cs |-> cs, self |-> call, err |-> Err("HighLevelTracer TODO", op, 0),
                index |-> FALSE]
          [] OTHER ->
               Replaced(SymPops(op), IF SymKind(op) = "none" THEN << >> ELSE <<SymKind(op)>>,
                        FALSE)

\* HighLevelTracer.PostRun: ParamTracer.PostRun, the switch, and the deferred
\* comparison of the two stack depths, which panics when they differ
HLDeferred(t, t1, i, vmCall, ptr, sw) ==
    IF ptr.panic THEN [h |-> t, err |-> NoErr, panic |-> "index"]
    ELSE IF Len(vmCall.Stack) # Len(sw.self.Stack)
    THEN [h |-> [t1 EXCEPT !.CallStack = sw.cs], err |-> NoErr, panic |-> "depth"]
    ELSE IF sw.index THEN [h |-> t1, err |-> NoErr, panic |-> "index"]
    ELSE [h |-> [t1 EXCEPT !.CallStack = sw.cs],
          err |-> IF sw.err = NoErr THEN NoErr ELSE [sw.err EXCEPT !.src = i],
          panic |-> ""]

HLPostRun(t, i, vmCall, line, c, env) ==
    HLDeferred(t, [t EXCEPT !.pt = ParamTracerPostRun(t.pt, vmCall, line, env).pt], i, vmCall,
               ParamTracerPostRun(t.pt, vmCall, line, env),
               HLSwitch([t EXCEPT !.pt = ParamTracerPostRun(t.pt, vmCall, line, env).pt],
                        vmCall, line, c, env.order[i], env.slack))

PTPostRun(h, ptr) ==
    [h |-> [h EXCEPT !.pt = ptr.pt], err |-> NoErr,
     panic |-> IF ptr.panic THEN "index" ELSE ""]

\* hook.PostRun, by dynamic type
HookPostRun(h, i, call, line, c, env) ==
    CASE h.type \in {"BpPc", "BpOpCode"} -> [h |-> h, err |-> NoErr, panic |-> ""]
      [] h.type = "ParamTracer" -> PTPostRun(h, ParamTracerPostRun(h.pt, call, line, env))
      [] h.type = "HighLevelTracer" -> HLPostRun(h, i, call, line, c, env)

\* --------------------------------------------------------------- hook chain
\* a chain that keeps the first error instead of the last
KeepError_first(err, e) == IF err # NoErr THEN err ELSE e
\* lines 89-91 and 100-102 of Hooks: a non-nil error replaces the kept one
KeepError(err, e) == IF e # NoErr THEN e ELSE err

\* Hooks.PreRunAll from hook i on; acc carries the hooks, the kept error,
\* a panic, and the log of the calls made
\* the chain's state after hook i answered r
KeepPreRun(acc, i, r) ==
    [hooks |-> [acc.hooks EXCEPT ![i] = r.h],
     err |-> KeepError(acc.err, r.err),
     panic |-> IF r.panic THEN "index" ELSE "",
     log |-> Append(acc.log, [ev |-> "PreRun", h |-> i, err |-> r.err])]

RECURSIVE PreRunFrom(_, _, _, _, _)
PreRunFrom(acc, i, call, line, env) ==
    IF i > Len(acc.hooks) \/ acc.panic # "" THEN acc
    ELSE PreRunFrom(KeepPreRun(acc, i, HookPreRun(acc.hooks[i], i, call, line, env)),
                    i + 1, call, line, env)

PreRunAll(hks, call, line, env) ==
    PreRunFrom([hooks |-> hks, err |-> NoErr, panic |-> "", log |-> << >>], 1, call, line, env)

KeepPostRun(acc, i, r) ==
    [hooks |-> [acc.hooks EXCEPT ![i] = r.h],
     err |-> KeepError(acc.err, r.err),
     panic |-> r.panic,
     log |-> Append(acc.log, [ev |-> "PostRun", h |-> i, err |-> r.err])]

RECURSIVE PostRunFrom(_, _, _, _, _, _)
PostRunFrom(acc, i, call, line, c, env) ==
    IF i > Len(acc.hooks) \/ acc.panic # "" THEN acc
    ELSE PostRunFrom(KeepPostRun(acc, i, HookPostRun(acc.hooks[i], i, call, line, c, env)),
                     i + 1, call, line, c, env)

\* a PostRun phase that leaves out the first hook
PostRunAll_skipFirst(hks, call, line, c, env) ==
    PostRunFrom([hooks |-> hks, err |-> NoErr, panic |-> "", log |-> << >>], 2, call, line, c, env)

PostRunAll(hks, call, line, c, env) ==
    PostRunFrom([hooks |-> hks, err |-> NoErr, panic |-> "", log |-> << >>], 1, call, line, c, env)

\* ------------------------------------------------------- interpreter loop
\* a loop without the first-step exemption: every PreRun error returns
PreRunSurfaces_everyStep(e, is_first_step) == e # NoErr
\* line 153: a PreRun error returns from Run unless this is the first step
PreRunSurfaces(e, is_first_step) == e # NoErr /\ ~is_first_step

\* a driver that adds 1 after every opcode
DriverAddsPc_always(opcode) == TRUE

\* line 165: the driver adds 1 to the pc except for JUMP and JUMPI
DriverAddsPc(opcode) == opcode # JUMP /\ opcode # JUMPI

Event(name) == [ev |-> name, h |-> 0, err |-> NoErr]

\* what one iteration of the loop leaves: the context and hooks, how it
\* ended (outcome), the error Run returns, and the order of the calls made
StepResult(c, hks, outcome, err, panic, log, call, after, op, preErr, postErr) ==
    [ctx |-> c, hooks |-> hks, outcome |-> outcome, err |-> err, panic |-> panic,
     log |-> log, before |-> call, after |-> after, op |-> op,
     preErr |-> preErr, postErr |-> postErr]

\* lines 170-174: after PostRunAll
AfterPostRun(c2, call, callAfter, opcode, pre, log, post) ==
    IF post.panic # ""
    THEN StepResult(c2, post.hooks, "panic", NoErr, post.panic, log \o post.log,
                    call, callAfter, opcode, NoErr, NoErr)
    ELSE IF post.err # NoErr
    THEN StepResult(c2, post.hooks, "post", post.err, "", log \o post.log,
                    call, callAfter, opcode, pre.err, post.err)
    ELSE StepResult(c2, post.hooks, "ok", NoErr, "", log \o post.log,
                    call, callAfter, opcode, pre.err, post.err)

\* a driver that takes the current frame again after the exec function
CallOfStep_afterExec(c, ex) == Len(ex.c.CallStack)
\* line 145: call := ctx.Call(), taken before the exec function runs: the
\* place in the call stack of the frame the step works on
CallOfStep(c, ex) == Len(c.CallStack)

\* lines 159-170: after the exec function: the pc update on the frame that
\* executed, then PostRunAll with that frame
AfterExec(c, call, line, pre, ex, env) ==
    LET idx == CallOfStep(c, ex)
        inc == IF DriverAddsPc(line.Op) THEN 1 ELSE 0
        log == pre.log \o <<Event("Exec")>>
        c2 == IF ex.popped # << >> THEN ex.c
              ELSE [ex.c EXCEPT !.CallStack[idx].Pc = @ + inc]
        callAfter == IF ex.popped # << >> THEN [ex.popped[1] EXCEPT !.Pc = @ + inc]
                     ELSE [ex.c.CallStack[idx] EXCEPT !.Pc = @ + inc]
    IN  IF ex.panic
        THEN StepResult(c, pre.hooks, "panic", NoErr, "index", log,
                        call, call, line.Op, NoErr, NoErr)
        ELSE IF ex.err # NoErr
        THEN StepResult(ex.c, pre.hooks, "exec", ex.err, "", log, call,
                        IF ex.popped # << >> THEN ex.popped[1] ELSE ex.c.CallStack[idx],
                        line.Op, pre.err, NoErr)
        ELSE AfterPostRun(c2, call, callAfter, line.Op, pre,
                          log \o (IF inc = 1 THEN <<Event("PcInc")>> ELSE << >>),
                          PostRunAll(pre.hooks, callAfter, line, c2, env))

\* lines 153-159: after PreRunAll
AfterPreRun(c, call, line, is_first_step, pre, env) ==
    IF pre.panic # ""
    THEN StepResult(c, pre.hooks, "panic", NoErr, pre.panic, pre.log,
                    call, call, line.Op, NoErr, NoErr)
    ELSE IF PreRunSurfaces(pre.err, is_first_step)
    THEN StepResult(c, pre.hooks, "pre", pre.err, "", pre.log,
                    call, call, line.Op, pre.err, NoErr)
    ELSE AfterExec(c, call, line, pre, Exec(c, line.Op, env), env)

\* One iteration of the loop of Context.Run (lines 143-174) on context c
\* with hook chain hks.
Iterate(c, hks, is_first_step, env) ==
    LET call == Top(c)
        addr == CodeAddress(call)
    IN  IF addr \notin DOMAIN c.Contracts \/ ~c.Contracts[addr].Asm.set
        THEN StepResult(c, hks, "panic", NoErr, "nil", << >>, call, call, 0 - 1, NoErr, NoErr)
        ELSE IF ~HasLine(c.Contracts[addr].Asm, call.Pc)
        THEN StepResult(c, hks, "line", Err("invalid pc", call.Pc, 0), "", << >>,
                        call, call, 0 - 1, NoErr, NoErr)
        ELSE AfterPreRun(c, call, LineAtPc(c.Contracts[addr].Asm, call.Pc), is_first_step,
                         PreRunAll(hks, call, LineAtPc(c.Contracts[addr].Asm, call.Pc), env),
                         env)

\* ---------------------------------------------------------------- scenarios
\* The accounts of the replayed transaction and their code.  Every code ends
\* with a metadata block of length zero (the two bytes 00 00).
Addr == [EOA |-> 20, R |-> 19, A |-> 16, B |-> 17, C |-> 18, X |-> 21, S |-> 22]
Trailer == <<0, 0>>

\* the operands and the call instruction op(gas 0, to, [value,] in [0,inSize),
\* out [0,retSize)); STATICCALL and DELEGATECALL take no value
CallWith(op, to, value, inSize, retSize) ==
    <<PUSH1, retSize, PUSH1, 0, PUSH1, inSize, PUSH1, 0>>
    \o (IF op = CALL THEN <<PUSH1, value>> ELSE << >>) \o <<PUSH1, to, PUSH1, 0, op>>

\* the codes of the contracts of the replayed transactions
\*   Arith: PUSH1 3; PUSH1 4; ADD; PUSH1 5; PUSH1 2; PUSH1 1; ADDMOD; PUSH1 0;
\*     CALLDATALOAD; ISZERO; PUSH1 0; MSTORE; PUSH1 32; PUSH1 0; SHA3; DUP1;
\*     SWAP1; POP; PUSH1 1; SLOAD; PUSH1 2; SSTORE; STOP
\*   Loop: 0: JUMPDEST; PUSH1 0; CALLDATALOAD; PUSH1 10; JUMPI; PUSH1 0; JUMP;
\*     10: JUMPDEST; STOP   (loops for ever when call data word 0 is zero)
\*   Calls: calls B, reads the return data size, calls C, reads it again
\*   ReturnWord: PUSH1 7; PUSH1 0; MSTORE; PUSH1 32; PUSH1 0; RETURN
\*   ReturnFresh: returns a range of a memory that is still empty
\*   ReturnPast: returns a range that ends past the memory length
\*   CallA, DelegateB: the root calls A, and A delegates to B
\*   DelegatePre: delegates to the precompile 0x04
\*   Faults: EXTCODECOPY of B, then a JUMP past the code
\*   Underflow: ADD finds one operand
\*   JumpInto: the JUMP target is the immediate byte of the PUSH1
\*   CallKinds: PUSH2 9; PUSH1 0; MSTORE8, then CALL and STATICCALL of
\*     precompiles, a transfer to an address the context does not know, and a
\*     STATICCALL and a paying CALL that descend into C
\*   Cached: SLOAD 1 twice, SSTORE 7 to slot 1, SLOAD 1, BLOCKHASH 50 twice
\*   Sample: PUSH1 3; PUSH1 4; ADD; STOP, with no metadata block
\*   Bounds: RETURNDATACOPY of one byte while there is no return data
\*   Create: CREATE, which the interpreter does not implement
\*   Hash: PUSH1 9; PUSH1 0; MSTORE8; PUSH1 2; PUSH1 40; SHA3; POP; PUSH1 40;
\*     MLOAD; STOP   (hashes and loads past the end of a memory of one byte)
\*   Windows: CODECOPY(0, 0, 64); CODECOPY(4, 4, 64); PUSH1 8; MLOAD; POP;
\*     CODECOPY(0, 2, 1); STOP   (CODECOPY(memOffset, codeOffset, length):
\*     the load at 8 lies inside both copies)
Prog ==
    [Arith |->
        <<PUSH1, 3, PUSH1, 4, ADD, PUSH1, 5, PUSH1, 2, PUSH1, 1, ADDMOD, PUSH1, 0,
          CALLDATALOAD, ISZERO, PUSH1, 0, MSTORE, PUSH1, 32, PUSH1, 0, SHA3, DUP1, SWAP1,
          POP, PUSH1, 1, SLOAD, PUSH1, 2, SSTORE, STOP>> \o Trailer,
     Loop |->
        <<JUMPDEST, PUSH1, 0, CALLDATALOAD, PUSH1, 10, JUMPI, PUSH1, 0, JUMP, JUMPDEST,
          STOP>> \o Trailer,
     Calls |->
        CallWith(CALL, Addr.B, 0, 1, 32) \o <<RETURNDATASIZE, POP>>
        \o CallWith(CALL, Addr.C, 0, 1, 32) \o <<RETURNDATASIZE, STOP>> \o Trailer,
     ReturnWord |-> <<PUSH1, 7, PUSH1, 0, MSTORE, PUSH1, 32, PUSH1, 0, RETURN>> \o Trailer,
     ReturnFresh |-> <<PUSH1, 32, PUSH1, 0, RETURN>> \o Trailer,
     ReturnPast |-> <<PUSH1, 9, PUSH1, 0, MSTORE8, PUSH1, 4, PUSH1, 0, RETURN>> \o Trailer,
     Stop |-> <<STOP>> \o Trailer,
     CallA |-> CallWith(CALL, Addr.A, 0, 1, 32) \o <<STOP>> \o Trailer,
     DelegateB |-> CallWith(DELEGATECALL, Addr.B, 0, 0, 0) \o <<STOP>> \o Trailer,
     Identity |->
        <<ADDRESS, CALLER, PUSH1, 0, SLOAD, PUSH1, 9, PUSH1, 1, SSTORE, PUSH1, 4, PUSH1, 0,
          PUSH1, 0, CODECOPY, STOP>> \o Trailer,
     DelegatePre |-> CallWith(DELEGATECALL, 4, 0, 0, 0) \o <<STOP>> \o Trailer,
     Faults |->
        <<PUSH1, 0, PUSH1, 0, PUSH1, 0, PUSH1, 17, EXTCODECOPY, PUSH1, 200, JUMP>>
        \o Trailer,
     Underflow |-> <<PUSH1, 1, ADD, STOP>> \o Trailer,
     Revert |-> <<PUSH1, 0, PUSH1, 0, REVERT>> \o Trailer,
     JumpInto |-> <<PUSH1, 1, JUMP, STOP>> \o Trailer,
     CallKinds |->
        <<PUSH1 + 1, 0, 9, PUSH1, 0, MSTORE8>> \o CallWith(CALL, 4, 0, 1, 32) \o <<POP>>
        \o CallWith(STATICCALL, 2, 0, 1, 32) \o <<POP>>
        \o CallWith(CALL, Addr.X, 5, 0, 0) \o <<POP>>
        \o CallWith(STATICCALL, Addr.C, 0, 1, 32) \o <<POP>>
        \o CallWith(CALL, Addr.C, 5, 1, 32) \o <<STOP>> \o Trailer,
     Cached |->
        <<PUSH1, 1, SLOAD, POP, PUSH1, 1, SLOAD, POP, PUSH1, 7, PUSH1, 1, SSTORE,
          PUSH1, 1, SLOAD, POP, PUSH1, 50, BLOCKHASH, POP, PUSH1, 50, BLOCKHASH, STOP>>
        \o Trailer,
     Sample |-> <<PUSH1, 3, PUSH1, 4, ADD, STOP>>,
     Bounds |-> <<PUSH1, 1, PUSH1, 0, PUSH1, 0, RETURNDATACOPY, STOP>> \o Trailer,
     Create |-> <<CREATE, STOP>> \o Trailer,
     Hash |->
        <<PUSH1, 9, PUSH1, 0, MSTORE8, PUSH1, 2, PUSH1, 40, SHA3, POP, PUSH1, 40, MLOAD,
          STOP>> \o Trailer,
     Windows |->
        <<PUSH1, 64, PUSH1, 0, PUSH1, 0, CODECOPY, PUSH1, 64, PUSH1, 4, PUSH1, 4, CODECOPY,
          PUSH1, 8, MLOAD, POP, PUSH1, 1, PUSH1, 2, PUSH1, 0, CODECOPY, STOP>> \o Trailer]

\* a contract whose code was set with Code.Set and whose storage is preloaded
Deployed(code, storage) ==
    [CodeSet(NewContract, code).contract EXCEPT !.Storage = storage, !.Balance = 0]

Scenario(this, contracts) == [This |-> this, Contracts |-> contracts]

Scenarios ==
    { Scenario(Addr.A, (Addr.A :> Deployed(Prog.Arith, (0 :> 1)))),
      Scenario(Addr.A, (Addr.A :> Deployed(Prog.Loop, EmptyStorage))),
      Scenario(Addr.A, (Addr.A :> Deployed(Prog.Calls, EmptyStorage))
                       @@ (Addr.B :> Deployed(Prog.ReturnWord, EmptyStorage))
                       @@ (Addr.C :> Deployed(Prog.Stop, EmptyStorage))),
      Scenario(Addr.A, (Addr.A :> Deployed(Prog.Calls, EmptyStorage))
                       @@ (Addr.B :> Deployed(Prog.ReturnFresh, EmptyStorage))
                       @@ (Addr.C :> Deployed(Prog.Stop, EmptyStorage))),
      Scenario(Addr.A, (Addr.A :> Deployed(Prog.Calls, EmptyStorage))
                       @@ (Addr.B :> Deployed(Prog.ReturnPast, EmptyStorage))
                       @@ (Addr.C :> Deployed(Prog.Loop, EmptyStorage))),
      Scenario(Addr.R, (Addr.R :> Deployed(Prog.CallA, EmptyStorage))
                       @@ (Addr.A :> Deployed(Prog.DelegateB, (0 :> 11)))
                       @@ (Addr.B :> Deployed(Prog.Identity, (0 :> 22)))),
      Scenario(Addr.A, (Addr.A :> Deployed(Prog.DelegatePre, EmptyStorage))),
      Scenario(Addr.A, (Addr.A :> Deployed(Prog.Faults, EmptyStorage))),
      Scenario(Addr.A, (Addr.A :> Deployed(Prog.Underflow, EmptyStorage))),
      Scenario(Addr.A, (Addr.A :> Deployed(Prog.Revert, EmptyStorage))),
      Scenario(Addr.A, (Addr.A :> Deployed(Prog.JumpInto, EmptyStorage))),
      Scenario(Addr.A, (Addr.A :> Deployed(Prog.CallKinds, EmptyStorage))
                       @@ (Addr.C :> Deployed(Prog.Stop, EmptyStorage))),
      Scenario(Addr.A, (Addr.A :> Deployed(Prog.Cached, EmptyStorage))),
      Scenario(Addr.S, (Addr.S :> Deployed(Prog.Sample, EmptyStorage))),
      Scenario(Addr.R, (Addr.R :> Deployed(Prog.CallA, EmptyStorage))
                       @@ (Addr.A :> Deployed(Prog.Revert, EmptyStorage))),
      Scenario(Addr.A, (Addr.A :> Deployed(Prog.Bounds, EmptyStorage))),
      Scenario(Addr.A, (Addr.A :> Deployed(Prog.Create, EmptyStorage))),
      Scenario(Addr.A, (Addr.A :> Deployed(Prog.Hash, EmptyStorage))),
      Scenario(Addr.A, (Addr.A :> Deployed(Prog.Windows, EmptyStorage))) }

\* the call data of the replayed transaction: the loop reads its first word
CallDatas(sc) ==
    IF sc.Contracts[sc.This].Binary = Prog.Loop THEN { << >>, Bytes32(1) } ELSE { << >> }

\* NewContext, then the root frame and the contracts filled in
InitContext(sc, data) ==
    [IsDone |-> FALSE,
     CallStack |-> <<RootCall(sc.This, Addr.EOA, data)>>,
     Contracts |-> sc.Contracts,
     BlockHashes |-> [x \in {} |-> 0]]

\* the hook chains attached before the first Run: tracers on every
\* transaction, breakpoints on the two single-contract programs
HookChains(c) ==
    { << >>,
      <<NewHighLevelTracer(c)>>,
      <<BpPc(Addr.B, 2), NewHighLevelTracer(c)>> }
    \cup (IF c.Contracts[Top(c).This].Binary = Prog.Windows
          THEN { <<NewHighLevelTracer(c), NewHighLevelTracer(c)>> } ELSE { })
    \cup (IF c.Contracts[Top(c).This].Binary \in {Prog.Arith, Prog.Loop}
          THEN { <<ParamTracer>>,
                 <<BpOpCode(NilAddr, JUMP), BpPc(NilAddr, 0)>>,
                 <<NewHighLevelTracer(c), NewHighLevelTracer(c)>> }
               \cup { <<BpPc(NilAddr, p)>> : p \in {2, 4, 7} }
               \cup { <<BpPc(NilAddr, 2), BpOpCode(NilAddr, o)>> : o \in {PUSH1, ADD} }
          ELSE { })

\* what the archive node may answer during one step
Envs == [ok : BOOLEAN, code : {Prog.Stop}, word : {5, 6}, slack : {0, MaxSlack}]

\* How the range over the memMap of tracer h may go in a step of context c.
\* It matters in the fallback search of an MLOAD that finds a window: the
\* order is given by the window produced last and by whether the entry the
\* search adds is produced too.
NoOrder == [last |-> 0, again |-> FALSE]
RangeOrder(h, c) ==
    LET call == Top(c)
        addr == CodeAddress(call)
        offset == PeekI(call.Stack, 0)
        mm == h.CallStack[Len(h.CallStack)].MemMap
    IN  IF /\ h.type = "HighLevelTracer"
           /\ h.CallStack # << >>
           /\ addr \in DOMAIN c.Contracts
           /\ c.Contracts[addr].Asm.set
           /\ HasLine(c.Contracts[addr].Asm, call.Pc)
           /\ LineAtPc(c.Contracts[addr].Asm, call.Pc).Op = MLOAD
           /\ call.Stack # << >>
           /\ offset \notin DOMAIN mm
           /\ Windows(mm, offset) # {}
        THEN [last : Windows(mm, offset), again : BOOLEAN]
        ELSE {NoOrder}

\* one order for every hook of the chain
RangeOrders(c, hks) ==
    { o \in [DOMAIN hks -> UNION { RangeOrder(hks[i], c) : i \in DOMAIN hks }] :
        \A i \in DOMAIN hks : o[i] \in RangeOrder(hks[i], c) }

\* the answers of the node and the orders of the ranges of one step
WithOrder(env, order) ==
    [ok |-> env.ok, code |-> env.code, word |-> env.word, slack |-> env.slack, order |-> order]

\* ------------------------------------------------------------ state machine
VARIABLES ctx, hooks, run, ret, panicked, last

vars == <<ctx, hooks, run, ret, panicked, last>>

NoStep == [outcome |-> "none", is_first_step |-> FALSE, op |-> 0 - 1, log |-> << >>,
           preErr |-> NoErr, postErr |-> NoErr,
           before |-> RootCall(0, 0, << >>), after |-> RootCall(0, 0, << >>),
           depth |-> 0, steps |-> 0]

\* A Code.Set that panics while the contracts are filled in ends the program
\* before the first Run.
Init ==
    \E sc \in Scenarios : \E data \in CallDatas(sc) :
        /\ ctx = InitContext(sc, data)
        /\ hooks \in HookChains(InitContext(sc, data))
        /\ run = [active |-> FALSE, steps |-> 0, is_first_step |-> FALSE, n |-> 0, count |-> 0]
        /\ ret = NoErr
        /\ panicked = IF \E a \in DOMAIN sc.Contracts : ~sc.Contracts[a].Asm.set
                      THEN "slice bounds out of range" ELSE ""
        /\ last = NoStep

\* the driver calls ctx.Run(n)
RunCall(n) ==
    /\ ~run.active
    /\ panicked = ""
    /\ run' = [active |-> TRUE, steps |-> n, is_first_step |-> TRUE, n |-> n, count |-> 0]
    /\ last' = NoStep
    /\ UNCHANGED <<ctx, hooks, ret, panicked>>

\* a loop that forgets to count the iteration
StepsLeft_kept(steps) == steps

\* line 176: steps--.  A negative count stays negative: the model keeps it
\* as it is instead of counting down.
StepsLeft(steps) == IF steps < 0 THEN steps ELSE steps - 1

\* the instructions the iteration executed (the calls of op.Exec in the
\* log), counted for a Run with a positive argument n
Executed(n, log) ==
    IF n > 0 THEN Len(SelectSeq(log, LAMBDA x : x.ev = "Exec")) ELSE 0

\* the state after an iteration that ended as r says.  A panic ends the
\* program: the context is kept as it was when the step began.
Commit(r) ==
    /\ last' = [outcome |-> r.outcome, is_first_step |-> run.is_first_step,
                op |-> r.op, log |-> r.log, before |-> r.before, after |-> r.after,
                preErr |-> r.preErr, postErr |-> r.postErr,
                depth |-> Len(ctx.CallStack), steps |-> run.steps]
    /\ hooks' = r.hooks
    /\ IF r.outcome = "panic"
       THEN /\ panicked' = r.panic
            /\ UNCHANGED <<ctx, run, ret>>
       ELSE /\ ctx' = r.ctx
            /\ panicked' = ""
            /\ IF r.outcome = "ok"
               THEN /\ run' = [run EXCEPT !.steps = StepsLeft(@),
                                          !.count = @ + Executed(run.n, r.log),
                                          !.is_first_step = FALSE]
                    /\ UNCHANGED ret
               ELSE /\ run' = [run EXCEPT !.active = FALSE,
                                          !.count = @ + Executed(run.n, r.log)]
                    /\ ret' = r.err

\* one iteration of the loop of Run
RunStep ==
    /\ run.active
    /\ panicked = ""
    /\ run.steps # 0
    /\ ~ctx.IsDone
    /\ Len(ctx.CallStack) <= MaxDepth
    /\ Len(Top(ctx).Stack) <= MaxStack
    /\ \E env \in Envs : \E order \in RangeOrders(ctx, hooks) :
          Commit(Iterate(ctx, hooks, run.is_first_step, WithOrder(env, order)))

\* the loop condition fails: Run returns nil
RunExit ==
    /\ run.active
    /\ panicked = ""
    /\ (run.steps = 0 \/ ctx.IsDone)
    /\ run' = [run EXCEPT !.active = FALSE]
    /\ ret' = NoErr
    /\ UNCHANGED <<ctx, hooks, panicked, last>>

Next ==
    \/ \E n \in (0 - 1) .. MaxSteps : RunCall(n)
    \/ RunStep
    \/ RunExit

Spec == Init /\ [][Next]_vars

\* ------------------------------------------- code set-up without a run
\* Context.Load of the file Save wrote from c: the Asm is not saved, so every
\* contract is disassembled again from its Binary
Load(c) ==
    IF \E a \in DOMAIN c.Contracts : Disasm(c.Contracts[a].Binary).panic
    THEN [panic |-> TRUE, c |-> c]
    ELSE [panic |-> FALSE,
          c |-> [c EXCEPT !.Contracts =
                    [a \in DOMAIN c.Contracts |->
                        CodeSetFresh(c.Contracts[a], c.Contracts[a].Binary,
                                     Disasm(c.Contracts[a].Binary)).contract]]]

\* the bytes the disassembled strings are made of: STOP, ADD, an unassigned
\* opcode and PUSH1
CodeBytes == {STOP, ADD, ADD + 11, PUSH1}

RECURSIVE CodesOfLen(_)
CodesOfLen(n) ==
    IF n = 0 THEN { << >> }
    ELSE { Append(c, b) : c \in CodesOfLen(n - 1), b \in CodeBytes }

Codes == UNION { CodesOfLen(n) : n \in 0 .. MaxCode }

\* the codes set on the contract and answered by the node
SetCodes == { << >>, <<PUSH1, 1>>, Prog.Stop, Prog.Revert, Prog.Underflow, Prog.Sample }

\* what the last operation was, on which code, and what Asm.Disasm built
CodeOp(op, code, d) ==
    [op |-> op, code |-> code, panic |-> d.panic, sequence |-> d.sequence,
     mapPc |-> d.mapPc]
NoDisasm == Scanned(<< >>)

CodeInit ==
    /\ ctx = InitContext(Scenario(Addr.A, (Addr.A :> NewContract)), << >>)
    /\ hooks = << >>
    /\ run = [active |-> FALSE, steps |-> 0, is_first_step |-> FALSE, n |-> 0, count |-> 0]
    /\ ret = NoErr
    /\ panicked = ""
    /\ last = CodeOp("NewContext", << >>, NoDisasm)

\* a panic of the operation ends the program with the context as it was
CodeCommit(op, code, d, panic, c, err) ==
    /\ last' = CodeOp(op, code, d)
    /\ panicked' = IF panic THEN "slice bounds out of range" ELSE ""
    /\ ctx' = IF panic THEN ctx ELSE c
    /\ ret' = err
    /\ UNCHANGED <<hooks, run>>

\* contract.Code.Set(code)
DoCodeSet ==
    /\ panicked = ""
    /\ \E code \in SetCodes :
          CodeCommit("Set", code, NoDisasm, CodeSet(ctx.Contracts[Addr.A], code).panic,
                     [ctx EXCEPT !.Contracts[Addr.A] = CodeSet(@, code).contract], NoErr)

\* ensure_code(ctx, A) while the node answers env
DoEnsureCode ==
    /\ panicked = ""
    /\ \E env \in [ok : BOOLEAN, code : SetCodes, word : {5}, slack : {0}] :
          CodeCommit("ensure_code", env.code, NoDisasm, ensure_code(ctx, Addr.A, env).panic,
                     ensure_code(ctx, Addr.A, env).c, ensure_code(ctx, Addr.A, env).err)

\* ctx.Save(fn) followed by ctx.Load(fn)
DoLoad ==
    /\ panicked = ""
    /\ CodeCommit("Load", << >>, NoDisasm, Load(ctx).panic, Load(ctx).c, NoErr)

CodeNext ==
    \/ DoCodeSet
    \/ DoEnsureCode
    \/ DoLoad

SpecCode == CodeInit /\ [][CodeNext]_vars

\* ------------------------------------------------ the disassembler alone
\* a byte string of at most MaxCode bytes is handed to Asm.Disasm
DisasmInit ==
    /\ ctx = InitContext(Scenario(Addr.A, (Addr.A :> NewContract)), << >>)
    /\ hooks = << >>
    /\ run = [active |-> FALSE, steps |-> 0, is_first_step |-> FALSE, n |-> 0, count |-> 0]
    /\ ret = NoErr
    /\ panicked = ""
    /\ \E code \in Codes : last = CodeOp("code", code, NoDisasm)

\* Asm.Disasm(code) on a fresh Asm
DoDisasm ==
    /\ panicked = ""
    /\ last.op = "code"
    /\ CodeCommit("Disasm", last.code, Disasm(last.code), Disasm(last.code).panic, ctx, NoErr)

SpecDisasm == DisasmInit /\ [][DoDisasm]_vars

\* ------------------------------------------------------------ symbolic IR
\* A node of the IR: its Go type (kind), the OpCode of an operator node, the
\* Val of a ValueNode (the constant of a Const, the concrete value recorded
\* on an operator node), the Str of a Label, and its child nodes in the order
\* walk visits them (X, Y of an operator; Offset, Val of a Memory; Input of a
\* Precompiled).  A *Memory field that holds a nil pointer is a node of the
\* kind "nil *Memory".  Nodes are values: two fields never share a node.
Node(kind, OpCode, Val, Str, args) ==
    [kind |-> kind, OpCode |-> OpCode, Val |-> Val, Str |-> Str, args |-> args]

\* an Equal that also compares the values recorded on operator nodes
RECURSIVE Equal_withVal(_, _)
Equal_withVal(n1, n2) ==
    IF n1.kind # n2.kind THEN FALSE
    ELSE CASE n1.kind = "UnaryOp" ->
                /\ n1.OpCode = n2.OpCode /\ n1.Val = n2.Val
                /\ Equal_withVal(n1.args[1], n2.args[1])
           [] n1.kind = "BinaryOp" ->
                /\ n1.OpCode = n2.OpCode /\ n1.Val = n2.Val
                /\ Equal_withVal(n1.args[1], n2.args[1])
                /\ Equal_withVal(n1.args[2], n2.args[2])
           [] n1.kind = "Const" -> n1.Val = n2.Val
           [] n1.kind = "Label" -> n1.Str = n2.Str
           [] OTHER -> FALSE

\* Equal: the types must agree; UnaryOp, BinaryOp, Const and Label are
\* compared field by field, every other type is never equal
RECURSIVE Equal(_, _)
Equal(n1, n2) ==
    IF n1.kind # n2.kind THEN FALSE
    ELSE CASE n1.kind = "UnaryOp" ->
                n1.OpCode = n2.OpCode /\ Equal(n1.args[1], n2.args[1])
           [] n1.kind = "BinaryOp" ->
                /\ n1.OpCode = n2.OpCode
                /\ Equal(n1.args[1], n2.args[1])
                /\ Equal(n1.args[2], n2.args[2])
           [] n1.kind = "Const" -> n1.Val = n2.Val
           [] n1.kind = "Label" -> n1.Str = n2.Str
           [] OTHER -> FALSE

\* An optimizer's Do is the sequence of the nodes it hands to
\* Cursor.Replace, in the order of the calls; it returns modified = true
\* exactly when the sequence is not empty.

\* ProxyEIP1967.Do.  The two slots are words of the model's width.
PROXY_EIP1967_SLOT == 54
PROXY_EIP1967_ADMIN == 181
ProxyEIP1967Do(n) ==
    IF n.kind # "Const" THEN << >>
    ELSE IF n.Val = PROXY_EIP1967_SLOT
    THEN <<Node("Label", 0, 0, "PROXY_EIP1967_SLOT", << >>)>>
    ELSE IF n.Val = PROXY_EIP1967_ADMIN
    THEN <<Node("Label", 0, 0, "PROXY_EIP1967_ADMIN", << >>)>>
    ELSE << >>

\* the arithmetic of EvaluateConst: the shift amount is uint(y.Uint64())
BinaryConst(op, x, y) ==
    CASE op = ADD -> Wrap(x + y)
      [] op = SUB -> Wrap(x - y + WordMod)
      [] op = SHL -> Lsh(x, Uint64(y))
      [] op = SHR -> Rsh(x, Uint64(y))
      [] op = SAR -> SRsh(x, Uint64(y))

\* EvaluateConst: the value of a constant expression, or ok = FALSE
RECURSIVE EvaluateConst(_)
EvaluateConst(n) ==
    CASE n.kind = "Const" -> [ok |-> TRUE, v |-> n.Val]
      [] n.kind = "UnaryOp" ->
            IF n.OpCode = NOT /\ EvaluateConst(n.args[1]).ok
            THEN [ok |-> TRUE, v |-> BitNot(EvaluateConst(n.args[1]).v)]
            ELSE [ok |-> FALSE, v |-> 0]
      [] n.kind = "BinaryOp" ->
            IF ~EvaluateConst(n.args[1]).ok \/ ~EvaluateConst(n.args[2]).ok
               \/ n.OpCode \notin {ADD, SUB, SHL, SHR, SAR}
            THEN [ok |-> FALSE, v |-> 0]
            ELSE [ok |-> TRUE,
                  v |-> BinaryConst(n.OpCode, EvaluateConst(n.args[1]).v,
                                    EvaluateConst(n.args[2]).v)]
      [] OTHER -> [ok |-> FALSE, v |-> 0]

\* a match that takes every constant for a mask
match_anyConst(x_or_y) == EvaluateConst(x_or_y).ok

\* SignCast.match: the operand folds to U20, U20High, U16, U16High or U32.
\* The masks cover the same share of the model's word as of the program's:
\* the low and the high five eighths, the low and the high half, and all.
match(x_or_y) ==
    /\ EvaluateConst(x_or_y).ok
    /\ EvaluateConst(x_or_y).v \in
          { Pow2((5 * WordBits) \div 8) - 1,
            WordMod - Pow2(WordBits - (5 * WordBits) \div 8),
            WordMod - 1,
            Pow2(WordBits \div 2) - 1,
            WordMod - Pow2(WordBits - WordBits \div 2) }

SignCastDo(n) ==
    IF n.kind = "BinaryOp" /\ n.OpCode = AND
    THEN (IF match(n.args[1]) THEN <<n.args[2]>> ELSE << >>)
         \o (IF match(n.args[2]) THEN <<n.args[1]>> ELSE << >>)
    ELSE << >>

funSigSample ==
    Node("BinaryOp", SHR, 0, "",
         <<Node("UnaryOp", CALLDATALOAD, 0, "", <<Node("Const", 0, 0, "", << >>)>>),
           Node("Const", 0, 224, "", << >>)>>)

\* a FunSig that looks at the opcode of the node only
FunSigDo_anySHR(n) ==
    IF n.kind = "BinaryOp" /\ n.OpCode = SHR
    THEN <<Node("Label", 0, 0, "func_sig", << >>)>> ELSE << >>

FunSigDo(n) ==
    IF Equal(funSigSample, n) THEN <<Node("Label", 0, 0, "func_sig", << >>)>> ELSE << >>

\* a CounterBinaryOp that does not compare the two constants
CounterBinaryOpDo_anyConst(n) ==
    IF /\ n.kind = "BinaryOp"
       /\ n.args[2].kind = "BinaryOp"
       /\ <<n.OpCode, n.args[2].OpCode>> \in {<<ADD, SUB>>, <<SUB, ADD>>}
       /\ n.args[1].kind = "Const"
    THEN <<n.args[2].args[1]>> ELSE << >>

\* CounterBinaryOp.Do with is_counter_op
CounterBinaryOpDo(n) ==
    IF /\ n.kind = "BinaryOp"
       /\ n.args[2].kind = "BinaryOp"
       /\ <<n.OpCode, n.args[2].OpCode>> \in {<<ADD, SUB>>, <<SUB, ADD>>}
       /\ n.args[1].kind = "Const"
       /\ Equal(n.args[1], n.args[2].args[2])
    THEN <<n.args[2].args[1]>> ELSE << >>

\* a CounterUnaryOp that collapses a pair of any unary opcode
CounterUnaryOpDo_anyOp(n) ==
    IF /\ n.kind = "UnaryOp"
       /\ n.args[1].kind = "UnaryOp"
       /\ n.OpCode = n.args[1].OpCode
    THEN <<n.args[1].args[1]>> ELSE << >>

CounterUnaryOpDo(n) ==
    IF /\ n.kind = "UnaryOp"
       /\ n.args[1].kind = "UnaryOp"
       /\ n.OpCode = n.args[1].OpCode
       /\ n.OpCode \in {ISZERO, NOT}
    THEN <<n.args[1].args[1]>> ELSE << >>

DefaultOptimizers ==
    <<"FunSig", "CounterUnaryOp", "CounterBinaryOp", "ProxyEIP1967", "SignCast">>

\* the function Optimize hands to Walk: every optimizer of opts, from the
\* i-th on, looks at the cursor's node n; the Replace calls in their order
RECURSIVE walkFn(_, _, _)
walkFn(n, opts, i) ==
    IF i > Len(opts) THEN << >>
    ELSE (CASE opts[i] = "FunSig" -> FunSigDo(n)
            [] opts[i] = "CounterUnaryOp" -> CounterUnaryOpDo(n)
            [] opts[i] = "CounterBinaryOp" -> CounterBinaryOpDo(n)
            [] opts[i] = "ProxyEIP1967" -> ProxyEIP1967Do(n)
            [] opts[i] = "SignCast" -> SignCastDo(n))
         \o walkFn(n, opts, i + 1)

\* Cursor.Replace: the parent's field holds the node of the last Replace;
\* the cursor's node stays n
Replace(n, modified, replaced) ==
    [panic |-> FALSE, modified |-> modified \/ replaced # << >>,
     node |-> IF replaced = << >> THEN n ELSE replaced[Len(replaced)]]

\* walker.walk after the children of n: n holds the nodes that replaced them
\* when the function sees it
Visited(n, nodes, modified, opts) ==
    Replace([n EXCEPT !.args = nodes], modified, walkFn([n EXCEPT !.args = nodes], opts, 1))

\* walker.walk: the children first and in their order, then the function.
\* The case *Memory reads n.Offset, which on a nil *Memory is a nil pointer
\* dereference.  walkArgs is the walk of the children from the i-th on, done
\* the children before it: their nodes, and whether one was modified.
RECURSIVE walk(_, _), walkArgs(_, _, _, _, _)
walk(n, opts) ==
    IF n.kind = "nil *Memory"
    THEN [panic |-> TRUE, modified |-> FALSE, node |-> n]
    ELSE walkArgs(n, opts, 1, << >>, FALSE)
walkArgs(n, opts, i, nodes, modified) ==
    IF i > Len(n.args) THEN Visited(n, nodes, modified, opts)
    ELSE CHOOSE done \in
            { IF r.panic THEN [panic |-> TRUE, modified |-> FALSE, node |-> n]
              ELSE walkArgs(n, opts, i + 1, Append(nodes, r.node), modified \/ r.modified) :
              r \in {walk(n.args[i], opts)} } : TRUE

\* Optimize(root, opts): newNode and modified
Optimize(root, opts) == walk(root, opts)

\* ----------------------------------------------------- optimizing an IR
\* the longest chain of one-operand operators in an IR of the runs below
MaxChain == 5
\* how many times in a row the trace is optimized
MaxCalls == 3

Const(v) == Node("Const", 0, v, "", << >>)
Label(s) == Node("Label", 0, 0, s, << >>)
NullaryOp(op) == Node("NullaryOp", op, 0, "", << >>)
UnaryOp(op, v, x) == Node("UnaryOp", op, v, "", <<x>>)
BinaryOp(op, v, x, y) == Node("BinaryOp", op, v, "", <<x, y>>)
Memory(offset, val) == Node("Memory", 0, 0, "", <<offset, val>>)
NilMemory == Node("nil *Memory", 0, 0, "", << >>)
Precompiled(input) == Node("Precompiled", 0, 0, "", <<input>>)
If(cond) == Node("If", 0, 0, "", <<cond>>)
Call(list) == Node("Call", 0, 0, "", list)

\* the values an operator node may have recorded
Vals == {0, 7}
Leaves == {Const(0), Const(4), Const(224), Label("x")}
Unary(ops, S) == {UnaryOp(op, v, x) : op \in ops, v \in Vals, x \in S}
Binary(ops, S, T) == {BinaryOp(op, v, x, y) : op \in ops, v \in Vals, x \in S, y \in T}

\* chains of up to n one-operand operators over the nodes of S
RECURSIVE Chains(_, _)
Chains(S, n) ==
    IF n = 0 THEN S
    ELSE S \cup {UnaryOp(op, 0, x) : op \in {ISZERO, NOT, CALLDATALOAD}, x \in Chains(S, n - 1)}

\* expressions of one operator, and of two
Exprs1 ==
    Unary({ISZERO, NOT, CALLDATALOAD}, Leaves) \cup Binary({ADD, SUB, SHR}, Leaves, Leaves)
Exprs2 ==
    {UnaryOp(op, 0, x) : op \in {ISZERO, NOT}, x \in Exprs1}
    \cup {BinaryOp(op, 0, x, y) : op \in {ADD, SUB, SHR}, x \in Leaves, y \in Exprs1}
    \cup {BinaryOp(op, 0, x, y) : op \in {ADD, SHR}, x \in Exprs1, y \in {Const(4), Const(224)}}

\* the selector of the called function with any recorded values, as an
\* operand of further operators
FuncSigs ==
    {BinaryOp(SHR, v, UnaryOp(CALLDATALOAD, w, Const(0)), Const(224)) : v \in Vals, w \in Vals}
Exprs3 ==
    {UnaryOp(ISZERO, 0, f) : f \in FuncSigs}
    \cup {BinaryOp(AND, 0, f, g) : f \in FuncSigs, g \in FuncSigs \cup {Const(WordMod - 1)}}

\* constant expressions, some of which fold to a mask, and other operands
MaskExprs ==
    { Const(WordMod - 1), Const(Pow2(WordBits \div 2) - 1), Const(4),
      Const(PROXY_EIP1967_SLOT), Const(PROXY_EIP1967_ADMIN),
      UnaryOp(NOT, 0, Const(0)),
      UnaryOp(ISZERO, 0, Const(0)),
      UnaryOp(NOT, 0, Label("x")),
      BinaryOp(SUB, 0, BinaryOp(SHL, 0, Const(1), Const(3)), Const(1)),
      UnaryOp(NOT, 0, BinaryOp(SUB, 0, BinaryOp(SHL, 0, Const(1), Const(3)), Const(1))),
      UnaryOp(NOT, 0, BinaryOp(SUB, 0,
                  BinaryOp(SHL, 0, Const(1), Const(Pow2(WordBits \div 2) + 3)), Const(1))),
      BinaryOp(SUB, 7, BinaryOp(SHL, 0, Const(1), Const(WordBits \div 2)), Const(1)),
      BinaryOp(ADD, 0, Const(WordMod - 4), Const(3)),
      BinaryOp(ADD, 0, Const(WordMod - 4), Const(4)),
      BinaryOp(SHR, 0, Const(WordMod - 1), Const(WordBits - (5 * WordBits) \div 8)),
      BinaryOp(SAR, 0, Const(WordMod \div 2), Const((5 * WordBits) \div 8 - 1)),
      BinaryOp(AND, 0, Const(WordMod - 1), Const(WordMod - 1)),
      BinaryOp(SHL, 0, Const(WordMod - 1), Label("x")) }
Operands ==
    { Label("x"), NullaryOp(CALLER), BinaryOp(SHL, 0, NullaryOp(CALLER), Const(3)),
      UnaryOp(ISZERO, 0, UnaryOp(ISZERO, 0, Label("x"))) }
Ands ==
    {BinaryOp(op, 0, x, y) : op \in {AND, ADD}, x \in MaskExprs, y \in Operands \cup {Const(WordMod - 1)}}
    \cup {BinaryOp(AND, 7, x, y) : x \in Operands, y \in MaskExprs}

\* the statements of a call: expressions, a write of one to memory, a branch
\* on one, a precompiled contract called on a memory with and without a node
Exprs ==
    Chains({Label("x"), Const(0)}, MaxChain) \cup Exprs1 \cup Exprs2 \cup Exprs3 \cup Ands
Statements(S) ==
    S \cup {Memory(Const(0), x) : x \in S} \cup {If(x) : x \in S}
      \cup {Precompiled(Memory(Const(4), x)) : x \in S}
      \cup {Precompiled(NilMemory)}
\* the traces of a run: the root is a call
Calls ==
    {Call(<<s>>) : s \in Statements(Exprs1 \cup Ands)}
    \cup {Call(<<s, Call(<<t>>), If(Label("x"))>>) :
             s \in Statements({funSigSample}), t \in Statements(Chains({Label("x")}, 2))}
Traces == Exprs \cup Calls

OptimizerLists ==
    {<<"FunSig">>, <<"CounterUnaryOp">>, <<"CounterBinaryOp">>, <<"ProxyEIP1967">>,
     <<"SignCast">>, DefaultOptimizers}

\* the trace a HighLevelTracer holds: CallStack.Data[0]
Traced(root) == [type |-> "HighLevelTracer", CallStack |-> <<root>>]
Optimizing(opts, input, calls, modified) ==
    [op |-> "Optimize", opts |-> opts, input |-> input, calls |-> calls, modified |-> modified]

IRInit ==
    /\ ctx = InitContext(Scenario(Addr.A, (Addr.A :> NewContract)), << >>)
    /\ run = [active |-> FALSE, steps |-> 0, is_first_step |-> FALSE, n |-> 0, count |-> 0]
    /\ ret = NoErr
    /\ panicked = ""
    /\ \E root \in Traces : \E opts \in OptimizerLists :
          /\ hooks = <<Traced(root)>>
          /\ last = Optimizing(opts, root, 0, FALSE)

\* the result r of Optimize on the trace of the hook: a panic ends the program
Optimized(r) ==
    /\ last' = Optimizing(last.opts, hooks[1].CallStack[1], last.calls + 1, r.modified)
    /\ hooks' = IF r.panic THEN hooks ELSE <<Traced(r.node)>>
    /\ panicked' = IF r.panic THEN "nil pointer dereference" ELSE panicked

\* symbolic.Optimize(rootCall, opts)
DoOptimize ==
    /\ panicked = ""
    /\ last.calls < MaxCalls
    /\ Optimized(Optimize(hooks[1].CallStack[1], last.opts))
    /\ UNCHANGED <<ctx, run, ret>>

SpecIR == IRInit /\ [][DoOptimize]_vars

\* the command of the debugger: Optimize(rootCall, DefaultOptimizers), given
\* again as long as the program runs
IRLiveInit ==
    /\ ctx = InitContext(Scenario(Addr.A, (Addr.A :> NewContract)), << >>)
    /\ run = [active |-> FALSE, steps |-> 0, is_first_step |-> FALSE, n |-> 0, count |-> 0]
    /\ ret = NoErr
    /\ panicked = ""
    /\ \E root \in Calls :
          /\ hooks = <<Traced(root)>>
          /\ last = Optimizing(DefaultOptimizers, root, 0, FALSE)
SpecIRLive == IRLiveInit /\ [][DoOptimize]_vars /\ WF_vars(DoOptimize)

\* ---------------------------------------------------- comparing IR nodes
\* nodes of UnaryOp, BinaryOp, Const and Label only
Comparable ==
    LET leaves == {Const(0), Const(4), Label("x"), Label("y"), Label("")}
        unary == Unary({ISZERO, NOT}, {Const(0), Label("x")})
    IN  leaves \cup unary
        \cup {BinaryOp(op, v, x, y) : op \in {ADD, SUB}, v \in Vals,
                                      x \in {Const(0)}, y \in {Const(0), Label("x")}}
        \cup {BinaryOp(ADD, 0, Label("x"), Const(0))}
        \cup {UnaryOp(ISZERO, 0, x) : x \in unary}
Compared(nodes, eq) == [op |-> "Equal", nodes |-> nodes, eq |-> eq]

EqualInit ==
    /\ ctx = InitContext(Scenario(Addr.A, (Addr.A :> NewContract)), << >>)
    /\ hooks = << >>
    /\ run = [active |-> FALSE, steps |-> 0, is_first_step |-> FALSE, n |-> 0, count |-> 0]
    /\ ret = NoErr
    /\ panicked = ""
    /\ \E n1 \in Comparable : \E n2 \in Comparable : \E n3 \in Comparable :
          last = Compared(<<n1, n2, n3>>, << >>)

\* Equal(n1, n2) for every two of the three nodes
DoEqual ==
    /\ last.eq = << >>
    /\ last' = Compared(last.nodes,
                        [i \in 1 .. 3 |-> [j \in 1 .. 3 |-> Equal(last.nodes[i], last.nodes[j])]])
    /\ UNCHANGED <<ctx, hooks, run, ret, panicked>>

SpecEqual == EqualInit /\ [][DoEqual]_vars

\* ------------------------------------------------- loading a hook chain
\* the most entries of a serialized hook chain
MaxHooks == 3

\* the names Register has put into map_hook_types when the program starts:
\* the init functions register BpPc, BpOpCode, ParamTracer, HighLevelTracer
map_hook_types == {"BpPc", "BpOpCode", "ParamTracer", "HighLevelTracer"}

\* makeInstance: reflect.New of the registered type, the zero value of the
\* hook; map_hook_types[name] of a name that is not registered is the nil
\* Type, and reflect.New(nil) panics
makeInstance(name) ==
    IF name \notin map_hook_types
    THEN [panic |-> TRUE, hk |-> ParamTracer]
    ELSE [panic |-> FALSE,
          hk |-> [type |-> name, Contract |-> NilAddr, Pc |-> 0, OpCode |-> 0] @@ NoHookState]

\* util.MapToStruct(x["Value"], hk): the object is encoded and decoded into
\* the instance, field by field of the same name.  A field the type does not
\* have is skipped; a number that does not fit the field (Pc is a uint64,
\* OpCode a byte) is an error.
MapToStruct(in, hk) ==
    CASE hk.type = "BpPc" ->
            IF in.Pc < 0 THEN [err |-> Err("json: cannot unmarshal", in.Pc, 0), hk |-> hk]
            ELSE [err |-> NoErr, hk |-> [hk EXCEPT !.Pc = in.Pc]]
      [] hk.type = "BpOpCode" ->
            IF in.OpCode \notin 0 .. 255
            THEN [err |-> Err("json: cannot unmarshal", in.OpCode, 0), hk |-> hk]
            ELSE [err |-> NoErr, hk |-> [hk EXCEPT !.OpCode = in.OpCode]]
      [] OTHER -> [err |-> NoErr, hk |-> hk]

\* Hooks.Attach
Attach(arr, h) == Append(arr, h)

\* one decoded element of the JSON array: a number, or an object whose Type
\* is a string or a number and whose Value is an object
JsonNumber(n) == [json |-> "number", n |-> n]
JsonString(s) == [json |-> "string", s |-> s]
JsonHook(type, pc, opcode) ==
    [json |-> "object", Type |-> type, Value |-> [Pc |-> pc, OpCode |-> opcode]]

\* the loop of Hooks.UnmarshalJSON from arr[i] on, arr being the hooks
\* attached so far
RECURSIVE UnmarshalFrom(_, _, _)
UnmarshalFrom(bs, i, arr) ==
    IF i > Len(bs) THEN [panic |-> FALSE, err |-> NoErr, arr |-> arr]
    ELSE IF bs[i].json # "object"
    THEN [panic |-> FALSE, err |-> Err("invalid hook format", i, 0), arr |-> arr]
    ELSE IF bs[i].Type.json # "string"
    THEN [panic |-> FALSE, err |-> Err("invalid 'Name' field", i, 0), arr |-> arr]
    ELSE IF makeInstance(bs[i].Type.s).panic
    THEN [panic |-> TRUE, err |-> NoErr, arr |-> arr]
    ELSE IF MapToStruct(bs[i].Value, makeInstance(bs[i].Type.s).hk).err # NoErr
    THEN [panic |-> FALSE,
          err |-> MapToStruct(bs[i].Value, makeInstance(bs[i].Type.s).hk).err, arr |-> arr]
    ELSE UnmarshalFrom(bs, i + 1,
             Attach(arr, MapToStruct(bs[i].Value, makeInstance(bs[i].Type.s).hk).hk))

\* Hooks.UnmarshalJSON on the decoded array bs
UnmarshalJSON(hks, bs) == UnmarshalFrom(bs, 1, hks)

\* serialized chains: hooks of the debugger's commands (breakpoints, the
\* tracers, the low level tracer), and elements no chain is saved as
JsonElements ==
    { JsonHook(JsonString("BpPc"), 2, 0), JsonHook(JsonString("BpPc"), 0 - 1, 0),
      JsonHook(JsonString("BpOpCode"), 0, JUMP), JsonHook(JsonString("BpOpCode"), 0, 256),
      JsonHook(JsonString("ParamTracer"), 0, 0), JsonHook(JsonString("HighLevelTracer"), 0, 0),
      JsonHook(JsonString("LowLevelTracer"), 0, 0), JsonHook(JsonString(""), 0, 0),
      JsonHook(JsonNumber(7), 0, 0), JsonNumber(7) }
RECURSIVE JsonArrays(_)
JsonArrays(n) ==
    IF n = 0 THEN {<< >>}
    ELSE JsonArrays(n - 1)
         \cup {Append(bs, e) : bs \in JsonArrays(n - 1), e \in JsonElements}
Unmarshalled(bs, before) == [op |-> "UnmarshalJSON", bs |-> bs, before |-> before, ended |-> FALSE]

HooksInit ==
    /\ ctx = InitContext(Scenario(Addr.A, (Addr.A :> NewContract)), << >>)
    /\ run = [active |-> FALSE, steps |-> 0, is_first_step |-> FALSE, n |-> 0, count |-> 0]
    /\ ret = NoErr
    /\ panicked = ""
    /\ hooks \in {<< >>, <<BpPc(NilAddr, 4)>>}
    /\ \E bs \in JsonArrays(MaxHooks) : last = Unmarshalled(bs, hooks)

\* the result r of UnmarshalJSON: the hooks attached before an error stay
Loaded(r) ==
    /\ hooks' = r.arr
    /\ ret' = r.err
    /\ panicked' = IF r.panic THEN "reflect: New(nil)" ELSE panicked
    /\ last' = [last EXCEPT !.ended = TRUE]

\* json.Unmarshal(bs, &ctx.Hooks)
DoUnmarshal ==
    /\ ~last.ended
    /\ Loaded(UnmarshalJSON(hooks, last.bs))
    /\ UNCHANGED <<ctx, run>>

SpecHooks == HooksInit /\ [][DoUnmarshal]_vars

\* ------------------------------------------------ one instruction alone
\* the root frame holds the operands of one shift instruction: the shift
\* amount on top of the value
ShiftAmounts ==
    {0, 1, WordBits - 1, WordBits, WordBits + 1, Pow2(WordBits \div 2) - 1,
     Pow2(WordBits \div 2), Pow2(WordBits \div 2) + 1, WordMod - 1}

WordOp(op, opcode, shift, value) ==
    [op |-> op, opcode |-> opcode, shift |-> shift, value |-> value]

WordInit ==
    /\ hooks = << >>
    /\ run = [active |-> FALSE, steps |-> 0, is_first_step |-> FALSE, n |-> 0, count |-> 0]
    /\ ret = NoErr
    /\ panicked = ""
    /\ \E opcode \in {SHL, SHR, SAR} : \E shift \in ShiftAmounts : \E value \in 0 .. WordMod - 1 :
          /\ last = WordOp("operands", opcode, shift, value)
          /\ ctx = SetStack(InitContext(Scenario(Addr.A, (Addr.A :> NewContract)), << >>),
                            <<value, shift>>)

\* OpTable[opcode].Exec(ctx)
DoExec ==
    /\ last.op = "operands"
    /\ last' = [last EXCEPT !.op = "exec"]
    /\ \E env \in Envs : ctx' = Exec(ctx, last.opcode, env).c
    /\ UNCHANGED <<hooks, run, ret, panicked>>

SpecWord == WordInit /\ [][DoExec]_vars

\* ------------------------------------------------------------- properties
\* a step of the loop of Run was taken
Stepped == run.active /\ run.steps # 0 /\ ~ctx.IsDone /\ last'.outcome # "none"

Entries(log, ev) == SelectSeq(log, LAMBDA x : x.ev = ev)
ExecRan(log) == Len(Entries(log, "Exec")) = 1
InAttachOrder(es, n) == Len(es) = n /\ \A i \in 1 .. n : es[i].h = i
LastNonNil(es) ==
    IF \A i \in DOMAIN es : es[i].err = NoErr THEN NoErr
    ELSE es[CHOOSE i \in DOMAIN es :
               es[i].err # NoErr /\ \A j \in DOMAIN es : j > i => es[j].err = NoErr].err

\* C1: an error of the PreRun chain is ignored on the first iteration of a
\* Run call (the instruction is executed and, when it succeeds, its PostRun
\* hooks run); on a later iteration Run returns that error before the exec
\* function, and the context is as it was before the step.
C1_PreRunErrorFirstStep ==
    [][(Stepped /\ last'.preErr # NoErr) =>
          IF run.is_first_step
          THEN /\ last'.outcome \in {"exec", "post", "ok"}
               /\ ExecRan(last'.log)
               /\ (last'.outcome \in {"post", "ok"} =>
                      Len(Entries(last'.log, "PostRun")) = Len(hooks))
          ELSE /\ last'.outcome = "pre"
               /\ ret' = last'.preErr
               /\ ~run'.active
               /\ ~ExecRan(last'.log)
               /\ ctx' = ctx]_vars

\* a Run resumed on a breakpoint and its first step ignored the breakpoint
C1_Witness ==
    /\ Len(hooks) = 2
    /\ last.is_first_step
    /\ last.preErr.kind = "breakpoint"
    /\ last.outcome = "ok"
    /\ ret.kind = "breakpoint"

BpPcs == {2, 4, 7}

\* C2: with one BpPc hook for pc p (Contract unset), Run(-1) returns
\* Breakpoint when the current frame's pc is p on an iteration that is not
\* the first of the Run, leaving the instruction at p unexecuted; the first
\* iteration of a Run executes the instruction at p without Breakpoint; no
\* step at another pc returns Breakpoint.
C2_BreakpointResume ==
    [][\A p \in BpPcs :
          (Stepped /\ hooks = <<BpPc(NilAddr, p)>> /\ run.steps < 0) =>
              IF Top(ctx).Pc = p /\ ~run.is_first_step
              THEN /\ last'.outcome = "pre"
                   /\ ret'.kind = "breakpoint"
                   /\ ret'.detail = p
                   /\ ~run'.active
                   /\ ctx' = ctx
              ELSE last'.outcome # "pre"]_vars

\* the second Run(-1) has executed the instruction at the breakpoint
C2_Witness ==
    /\ hooks = <<BpPc(NilAddr, 2)>>
    /\ ret.kind = "breakpoint"
    /\ last.steps < 0
    /\ last.is_first_step
    /\ last.before.Pc = 2
    /\ last.after.Pc = 4
    /\ last.outcome = "ok"

\* C3: PreRunAll and PostRunAll call the callback of every attached hook,
\* also after a hook returned an error, and return the error of the last
\* hook in attach order that returned one, or nil when none did.
C3_LastErrorWins ==
    /\ last.outcome \in {"pre", "exec", "post", "ok"} =>
          /\ InAttachOrder(Entries(last.log, "PreRun"), Len(hooks))
          /\ last.preErr = LastNonNil(Entries(last.log, "PreRun"))
    /\ last.outcome \in {"post", "ok"} =>
          /\ InAttachOrder(Entries(last.log, "PostRun"), Len(hooks))
          /\ last.postErr = LastNonNil(Entries(last.log, "PostRun"))
    /\ last.outcome = "pre" => ret = last.preErr
    /\ last.outcome = "post" => ret = last.postErr

\* two hooks returned an error in one PreRun phase and Run returned the second
C3_Witness ==
    /\ Len(hooks) = 2
    /\ last.outcome = "pre"
    /\ last.log[1].err # NoErr
    /\ last.log[2].err # NoErr
    /\ last.log[1].err # last.log[2].err
    /\ ret = last.log[2].err

\* C4: in a step that surfaces no error every hook's PreRun is called once
\* before exec, every hook's PostRun once after exec and after the driver's
\* pc update, both in attach order; a tracer sees the pc of before the step
\* in PreRun and the updated pc in PostRun.
C4_HookOrder ==
    last.outcome = "ok" =>
        LET n == Len(hooks)
            inc == IF \E i \in DOMAIN last.log : last.log[i].ev = "PcInc" THEN 1 ELSE 0
        IN  /\ Len(last.log) = 2 * n + 1 + inc
            /\ \A i \in 1 .. n : last.log[i].ev = "PreRun" /\ last.log[i].h = i
            /\ last.log[n + 1].ev = "Exec"
            /\ inc = 1 => last.log[n + 2].ev = "PcInc"
            /\ inc = 1 <=> last.op \notin {JUMP, JUMPI}
            /\ \A i \in 1 .. n : /\ last.log[n + 1 + inc + i].ev = "PostRun"
                                 /\ last.log[n + 1 + inc + i].h = i
            /\ \A i \in 1 .. n :
                  hooks[i].type \in {"ParamTracer", "HighLevelTracer"} =>
                      /\ hooks[i].pt.PcPre = last.before.Pc
                      /\ hooks[i].pt.PcPost = last.after.Pc

\* a step with two tracers attached went through both phases
C4_Witness ==
    /\ Len(hooks) = 2
    /\ hooks[2].type = "HighLevelTracer"
    /\ last.outcome = "ok"
    /\ last.op = ADD
    /\ Len(last.log) = 6

\* C5: the call stack always holds at least one frame and its bottom frame
\* is the frame of the outer transaction made by NewContext.
C5_RootFrame ==
    /\ Len(ctx.CallStack) >= 1
    /\ ctx.CallStack[1].root
    /\ ctx.CallStack[1].Sender = Addr.EOA
    /\ \A i \in 2 .. Len(ctx.CallStack) : ~ctx.CallStack[i].root

\* an inner frame returned to the root frame
C5_Witness ==
    /\ last.op \in {RETURN, STOP}
    /\ last.depth = 2
    /\ last.outcome = "ok"
    /\ Len(ctx.CallStack) = 1
    /\ ctx.CallStack[1].root


\* C6: when an exec function succeeds without pushing or popping a call
\* frame, the stack depth of the current frame changes by NStackOut minus
\* NStackIn of the opcode's row in OpTable.
C6_TableStackDelta ==
    (last.outcome = "ok" /\ Len(ctx.CallStack) = last.depth) =>
        Len(last.after.Stack) =
            Len(last.before.Stack) + OpTable[last.op].NStackOut - OpTable[last.op].NStackIn

Unsupported == {CREATE, CREATE2, CALLCODE, SELFDESTRUCT, EXTCODECOPY}

\* C7: with a HighLevelTracer attached from the start, the depth assertion
\* of its PostRun never panics after an opcode the tracer supports.
C7_TracerDepthAssertion ==
    ~(/\ panicked = "depth"
      /\ \E i \in DOMAIN hooks : hooks[i].type = "HighLevelTracer"
      /\ last.op \notin Unsupported)

\* the bytes [offset, offset+size) of a memory that reads as zero past its end
MemoryBytes(m, offset, size) ==
    [i \in 1 .. size |-> IF offset + i <= Len(m.store) THEN m.store[offset + i] ELSE 0]

\* C8: RETURN at depth > 1 pops the frame, sets the outer InnerReturnVal to
\* the memory bytes [offset, offset+size) of the returning frame, copies at
\* most OuterReturnSize of them to the outer memory at OuterReturnOffset,
\* pushes 1 on the outer stack and leaves IsDone false; at depth 1 it sets
\* IsDone and pops no frame.
C8_Return ==
    (last.op = RETURN /\ hooks = << >> /\ Len(last.before.Stack) >= 2) =>
        LET f == last.before
            out == MemoryBytes(f.Memory, PeekI(f.Stack, 0), PeekI(f.Stack, 1))
            n == Min(f.OuterReturnSize, Len(out))
            outer == Top(ctx)
        IN  IF last.depth > 1
            THEN /\ last.outcome = "ok"
                 /\ Len(ctx.CallStack) = last.depth - 1
                 /\ outer.InnerReturnVal = out
                 /\ Len(outer.Memory.store) >= f.OuterReturnOffset + n
                 /\ \A i \in 1 .. n : outer.Memory.store[f.OuterReturnOffset + i] = out[i]
                 /\ Len(outer.Stack) >= 1
                 /\ PeekI(outer.Stack, 0) = 1
                 /\ ~ctx.IsDone
            ELSE /\ ctx.IsDone
                 /\ Len(ctx.CallStack) = 1

\* C9: STOP at depth > 1 pops the frame, pushes 1 on the outer stack and
\* leaves the outer InnerReturnVal empty; at depth 1 it sets IsDone.
C9_Stop ==
    (last.op = STOP /\ hooks = << >>) =>
        IF last.depth > 1
        THEN /\ last.outcome = "ok"
             /\ Len(ctx.CallStack) = last.depth - 1
             /\ Len(Top(ctx).Stack) >= 1
             /\ PeekI(Top(ctx).Stack, 0) = 1
             /\ Top(ctx).InnerReturnVal = << >>
        ELSE ctx.IsDone

\* C10: in a frame made by DELEGATECALL from a frame of A to a target B the
\* instructions come from B's code, ADDRESS pushes A, CALLER pushes the
\* sender of the calling frame, SLOAD and SSTORE use A's storage and
\* CODECOPY copies bytes of B's code.
C10_DelegateIdentity ==
    LET f == last.before
        g == last.after
        A == f.This
        B == f.CodePtr
        caller == ctx.CallStack[last.depth - 1]
    IN  (/\ last.outcome = "ok"
         /\ hooks = << >>
         /\ Len(ctx.CallStack) = last.depth
         /\ last.depth > 1
         /\ B # NilAddr
         /\ B # A) =>
            /\ caller.This = A
            /\ last.op = ctx.Contracts[B].Binary[f.Pc + 1]
            /\ last.op = ADDRESS => PeekI(g.Stack, 0) = A
            /\ last.op = CALLER => PeekI(g.Stack, 0) = caller.Sender
            /\ last.op = SLOAD =>
                  /\ PeekI(f.Stack, 0) \in DOMAIN ctx.Contracts[A].Storage
                  /\ PeekI(g.Stack, 0) = ctx.Contracts[A].Storage[PeekI(f.Stack, 0)]
            /\ last.op = SSTORE =>
                  /\ PeekI(f.Stack, 0) \in DOMAIN ctx.Contracts[A].Storage
                  /\ ctx.Contracts[A].Storage[PeekI(f.Stack, 0)] = PeekI(f.Stack, 1)
                  /\ PeekI(f.Stack, 0) \notin DOMAIN ctx.Contracts[B].Storage
            /\ last.op = CODECOPY =>
                  LET memOffset == PeekI(f.Stack, 0)
                      codeOffset == PeekI(f.Stack, 1)
                      length == PeekI(f.Stack, 2)
                  IN  Slice(g.Memory.store, memOffset, memOffset + length) =
                          getData(ctx.Contracts[B].Binary, codeOffset, length)

\* the operands of a call instruction, read from the stack it finds;
\* STATICCALL and DELEGATECALL have no value operand
IsCallOp(op) == op \in {CALL, STATICCALL, DELEGATECALL}
CallOperands(op, s) ==
    LET k == IF op = CALL THEN 1 ELSE 0
    IN  [n |-> 6 + k, addr |-> PeekI(s, 1), value |-> IF op = CALL THEN PeekI(s, 2) ELSE 0,
         inOffset |-> PeekI(s, 2 + k), inSize |-> PeekI(s, 3 + k),
         retOffset |-> PeekI(s, 4 + k), retSize |-> PeekI(s, 5 + k)]

\* C11: a CALL with non-empty input, a DELEGATECALL or a STATICCALL whose
\* target is on the Berlin precompile list pushes no call frame: the output
\* (the input, for the identity precompile 0x04) becomes InnerReturnVal of
\* the current frame, is copied to its memory at retOffset, and 1 is pushed.
C11_PrecompileInline ==
    (/\ last.outcome = "ok"
     /\ IsCallOp(last.op)
     /\ CallOperands(last.op, last.before.Stack).addr \in PrecompiledContractsBerlin
     /\ (last.op = CALL => CallOperands(last.op, last.before.Stack).inSize # 0)) =>
        LET a == CallOperands(last.op, last.before.Stack)
            f == last.after
            n == Min(a.retSize, Len(f.InnerReturnVal))
        IN  /\ Len(ctx.CallStack) = last.depth
            /\ f.Stack = Append(PopN(last.before.Stack, a.n), 1)
            /\ (a.addr = 4 =>
                    f.InnerReturnVal = MemoryBytes(last.before.Memory, a.inOffset, a.inSize))
            /\ Len(f.Memory.store) >= a.retOffset + n
            /\ \A i \in 1 .. n : f.Memory.store[a.retOffset + i] = f.InnerReturnVal[i]

\* C12: a CALL whose inSize operand is zero pops its seven operands, pushes
\* 1 and changes nothing else: no frame is pushed, the contracts (entries,
\* balances, storage) and block hashes stay as they were, and the same
\* frame continues at the next instruction.
C12_Transfer ==
    [][(/\ Stepped
        /\ last'.op = CALL
        /\ ExecRan(last'.log)
        /\ panicked' = ""
        /\ Len(Top(ctx).Stack) >= 7
        /\ CallOperands(CALL, Top(ctx).Stack).inSize = 0) =>
           /\ last'.outcome = "ok"
           /\ ctx' = WithTop(ctx, [Top(ctx) EXCEPT !.Stack = Append(PopN(@, 7), 1),
                                                    !.Pc = @ + 1])]_vars

\* the transfer of 5 to an address the context has no contract for was executed
C12_Witness ==
    /\ last.op = CALL
    /\ last.outcome = "ok"
    /\ CallOperands(CALL, last.before.Stack).inSize = 0
    /\ CallOperands(CALL, last.before.Stack).addr = Addr.X
    /\ CallOperands(CALL, last.before.Stack).value = 5
    /\ Addr.X \notin DOMAIN ctx.Contracts
    /\ last.after.Pc = last.before.Pc + 1
    /\ Top(ctx) = last.after

\* C13: a descending CALL pushes a frame with this = target, sender = the
\* caller's this, value = the value operand (0 for STATICCALL), data = the
\* caller's memory bytes [inOffset, inOffset+inSize), pc 0, empty stack and
\* memory, and the retOffset/retSize operands as OuterReturnOffset/Size; a
\* DELEGATECALL pushes a frame with the caller's this, sender and value whose
\* code address is the target.
C13_DescendingFrame ==
    (/\ last.outcome = "ok"
     /\ IsCallOp(last.op)
     /\ Len(ctx.CallStack) = last.depth + 1) =>
        LET a == CallOperands(last.op, last.before.Stack)
            f == last.before
            new == Top(ctx)
        IN  /\ new.Pc = 0
            /\ new.Stack = << >>
            /\ new.Memory = NewMemory
            /\ new.OuterReturnOffset = a.retOffset
            /\ new.OuterReturnSize = a.retSize
            /\ new.Data = MemoryBytes(f.Memory, a.inOffset, a.inSize)
            /\ IF last.op = DELEGATECALL
               THEN /\ new.This = f.This
                    /\ new.Sender = f.Sender
                    /\ new.Value = f.Value
                    /\ CodeAddress(new) = a.addr
               ELSE /\ new.This = a.addr
                    /\ new.Sender = f.This
                    /\ new.Value = a.value
                    /\ CodeAddress(new) = a.addr

\* C14: JUMP, and JUMPI with a nonzero condition, set the pc to the target
\* only when the target is the pc of a Line of the code's disassembly; for
\* every other target they fail with InvalidJump and leave the pc unchanged.
C14_JumpTarget ==
    (/\ last.op \in {JUMP, JUMPI}
     /\ ExecRan(last.log)
     /\ panicked = ""
     /\ (last.op = JUMPI => PeekI(last.before.Stack, 1) # 0)) =>
        IF HasLine(ctx.Contracts[CodeAddress(last.before)].Asm, PeekI(last.before.Stack, 0))
        THEN /\ last.outcome = "ok"
             /\ last.after.Pc = PeekI(last.before.Stack, 0)
        ELSE /\ last.outcome = "exec"
             /\ ret.kind = "InvalidJump"
             /\ last.after.Pc = last.before.Pc

SampleIsRoot == ctx.CallStack[1].This = Addr.S

\* C18: for a new Context whose root contract's code is set to 60 03 60 04
\* 01 00 and whose root frame starts at pc 0 with an empty stack, Run(-1)
\* returns without error with the root frame's stack <<7>> and IsDone true.
C18_SampleRun ==
    (SampleIsRoot /\ hooks = << >>) =>
        /\ panicked = ""
        /\ (ctx.Contracts[Addr.S].Binary = Prog.Sample /\ last = NoStep) =>
               (Top(ctx).Pc = 0 /\ Top(ctx).Stack = << >>)
        /\ (~run.active /\ last.steps < 0 /\ last.outcome # "none") =>
               (ret = NoErr /\ ctx.IsDone /\ Top(ctx).Stack = <<7>>)

\* C20: during a run no block number leaves BlockHashes and no slot leaves
\* a contract's Storage, a BlockHashes value never changes and a Storage
\* value changes only by SSTORE; BLOCKHASH of a cached number and SLOAD of a
\* cached slot push the cached value, whatever the resolver would answer,
\* and a read that fetched caches the value it pushed.
C20_Caches ==
    [][(Stepped /\ panicked' = "") =>
          LET f == Top(ctx)
              x == PeekI(f.Stack, 0)
              read == ExecRan(last'.log) /\ Len(f.Stack) >= 1
          IN  /\ \A n \in DOMAIN ctx.BlockHashes :
                    /\ n \in DOMAIN ctx'.BlockHashes
                    /\ ctx'.BlockHashes[n] = ctx.BlockHashes[n]
              /\ \A a \in DOMAIN ctx.Contracts :
                    /\ a \in DOMAIN ctx'.Contracts
                    /\ \A s \in DOMAIN ctx.Contracts[a].Storage :
                          /\ s \in DOMAIN ctx'.Contracts[a].Storage
                          /\ (ctx'.Contracts[a].Storage[s] # ctx.Contracts[a].Storage[s]) =>
                                (last'.op = SSTORE /\ a = f.This /\ s = x)
              /\ (read /\ last'.op = BLOCKHASH /\ x \in DOMAIN ctx.BlockHashes) =>
                    /\ last'.outcome # "exec"
                    /\ PeekI(last'.after.Stack, 0) = ctx.BlockHashes[x]
                    /\ ctx'.BlockHashes = ctx.BlockHashes
              /\ (read /\ last'.op = BLOCKHASH /\ last'.outcome = "ok"
                       /\ x < SampleBlock.Number) =>
                    ctx'.BlockHashes[x] = PeekI(last'.after.Stack, 0)
              /\ (read /\ last'.op = SLOAD /\ f.This \in DOMAIN ctx.Contracts
                       /\ x \in DOMAIN ctx.Contracts[f.This].Storage) =>
                    /\ last'.outcome # "exec"
                    /\ PeekI(last'.after.Stack, 0) = ctx.Contracts[f.This].Storage[x]
                    /\ ctx'.Contracts = ctx.Contracts
              /\ (read /\ last'.op = SLOAD /\ last'.outcome = "ok") =>
                    ctx'.Contracts[f.This].Storage[x] = PeekI(last'.after.Stack, 0)]_vars

\* the second BLOCKHASH of block 50 pushed the cached hash
C20_Witness ==
    /\ Addr.A \in DOMAIN ctx.Contracts
    /\ ctx.Contracts[Addr.A].Binary = Prog.Cached
    /\ last.op = BLOCKHASH
    /\ last.before.Pc = 23
    /\ last.outcome = "ok"
    /\ PeekI(last.before.Stack, 0) = 50
    /\ 50 \in DOMAIN ctx.BlockHashes
    /\ PeekI(last.after.Stack, 0) = ctx.BlockHashes[50]
    /\ 1 \in DOMAIN ctx.Contracts[Addr.A].Storage
    /\ ctx.Contracts[Addr.A].Storage[1] = 7

\* the pc after the last Line of a sequence
AfterLines(sequence) ==
    IF sequence = << >> THEN 0
    ELSE sequence[Len(sequence)].Pc + 1 + Len(sequence[Len(sequence)].Data)

\* C16: Asm.Disasm never panics, whatever the byte string; the scan stops
\* only at the end of the code, at an unknown opcode or at a PUSH whose
\* immediate bytes are cut short, and the Lines before that point are kept.
C16_DisasmTotal ==
    (last.op = "Disasm") =>
        /\ ~last.panic
        /\ LET pc == AfterLines(last.sequence)
               end == IF Len(last.code) > 2
                      THEN Len(last.code) - MetaLen(last.code) - 2 ELSE Len(last.code)
           IN  \/ pc = end
               \/ /\ pc < end
                  /\ \/ last.code[pc + 1] \notin OpCodes
                     \/ pc + 1 + OpTable[last.code[pc + 1]].OpSize > end

\* the Lines of a disassembly of code that returned: consecutive from pc 0,
\* numbered by their index, each with the OpSize bytes after its opcode,
\* all inside the first end bytes, and indexed by mapPc
LinesOf(code, sequence, mapPc, end) ==
    /\ sequence # << >> => sequence[1].Pc = 0
    /\ \A i \in DOMAIN sequence :
          LET l == sequence[i]
          IN  /\ l.LineNum = i - 1
              /\ l.Op = code[l.Pc + 1]
              /\ l.Op \in OpCodes
              /\ Len(l.Data) = OpTable[l.Op].OpSize
              /\ l.Data = Slice(code, l.Pc + 1, l.Pc + 1 + OpTable[l.Op].OpSize)
              /\ l.Pc + 1 + OpTable[l.Op].OpSize <= end
              /\ i < Len(sequence) => sequence[i + 1].Pc = l.Pc + 1 + OpTable[l.Op].OpSize
              /\ l.Pc \in DOMAIN mapPc
              /\ mapPc[l.Pc] = l
    /\ DOMAIN mapPc = { sequence[i].Pc : i \in DOMAIN sequence }

\* C17 as stated: after Asm.Disasm returns, the Lines are consecutive from
\* pc 0, numbered by index, carry their immediate bytes, lie inside the code
\* without its metadata block (the length in the last two bytes plus those
\* two bytes), and the keys of mapPc are exactly their pcs.
C17_LinesStripped ==
    (last.op = "Disasm" /\ ~last.panic) =>
        LinesOf(last.code, last.sequence, last.mapPc,
                IF Len(last.code) >= 2
                THEN Len(last.code) - MetaLen(last.code) - 2 ELSE Len(last.code))

\* C17 amended: the same, where the metadata block is removed only from a
\* code longer than two bytes; a code of at most two bytes is scanned whole.
C17_Lines ==
    (last.op = "Disasm" /\ ~last.panic) =>
        LinesOf(last.code, last.sequence, last.mapPc,
                IF Len(last.code) > 2
                THEN Len(last.code) - MetaLen(last.code) - 2 ELSE Len(last.code))

\* PUSH1 1 was disassembled from a code that ends in a metadata byte and its
\* length 00 01
C17_Witness ==
    /\ last.op = "Disasm"
    /\ ~last.panic
    /\ Len(last.code) = 4
    /\ MetaLen(last.code) = 1
    /\ Len(last.sequence) = 1
    /\ last.sequence[1].Op = ADD

\* C19: after any sequence of Code.Set calls, ensure_code fetches and Load,
\* Binary and Asm of the contract are both absent, or Asm is the
\* disassembly of the current Binary.
C19_BinaryAsmAgree ==
    LET ct == ctx.Contracts[Addr.A]
    IN  IF ct.Asm.set
        THEN /\ ~Disasm(ct.Binary).panic
             /\ ct.Asm.sequence = Disasm(ct.Binary).sequence
             /\ ct.Asm.mapPc = Disasm(ct.Binary).mapPc
        ELSE ct.Binary = << >>
\* C21: when Run returns because the exec function of the instruction failed,
\* IsDone is false afterwards, the call stack has the frames it had before
\* the step (none pushed, none popped, the lower ones untouched), and the
\* failing frame's pc is still the pc of the failing instruction.
C21_ExecError ==
    [][(Stepped /\ last'.outcome = "exec") =>
          /\ ~run'.active /\ ret' # NoErr
          /\ ~ctx'.IsDone
          /\ Len(ctx'.CallStack) = Len(ctx.CallStack)
          /\ \A i \in 1 .. Len(ctx.CallStack) - 1 : ctx'.CallStack[i] = ctx.CallStack[i]
          /\ Top(ctx').Pc = Top(ctx).Pc
          /\ Top(ctx').This = Top(ctx).This
          /\ HasLine(CodeOf(ctx').Asm, Top(ctx').Pc)
          /\ LineAtPc(CodeOf(ctx').Asm, Top(ctx').Pc).Op = last'.op]_vars

\* Run has returned the error of a REVERT executed in an inner frame
C21_Witness ==
    /\ last.outcome = "exec" /\ last.op = REVERT /\ ret = Err("Reverted", 0, 0)
    /\ ~run.active /\ Len(ctx.CallStack) = 2

\* C22: a Run(n) with n > 0 executes at most n instructions, and exactly n
\* when it returns nil with IsDone still false; while the loop condition
\* fails (the count is 0 or IsDone is true) Run executes nothing, calls no
\* hook, changes neither context nor hooks and returns nil; a Run(n) with
\* n < 0 returns only with IsDone true or with an error; and no step of Run
\* resets IsDone.
C22_RunCount ==
    [][/\ run'.n > 0 => run'.count <= run'.n
       /\ (run.active /\ ~run'.active /\ run.n > 0 /\ ret' = NoErr /\ ~ctx'.IsDone)
             => run'.count = run.n
       /\ (run.active /\ panicked = "" /\ (run.steps = 0 \/ ctx.IsDone))
             => (~run'.active /\ ret' = NoErr /\ ctx' = ctx /\ hooks' = hooks
                 /\ last' = last /\ run'.count = run.count)
       /\ (run.active /\ ~run'.active /\ run.n < 0) => (ctx'.IsDone \/ ret' # NoErr)
       /\ ctx.IsDone => ctx'.IsDone]_vars

\* a Run(MaxSteps) has returned nil after MaxSteps instructions on a context
\* that is not done
C22_Witness ==
    /\ ~run.active /\ run.n = MaxSteps /\ run.count = MaxSteps /\ ret = NoErr
    /\ ~ctx.IsDone /\ last.outcome = "ok"

\* C23: for every word and every shift amount of at least the width of a
\* word (the width itself and amounts beyond the low limb included) SHL and
\* SHR leave 0, and SAR leaves 0 for a non-negative word and the all-ones
\* word for a negative one.
C23_ShiftClamp ==
    (last.op = "exec" /\ last.shift >= WordBits) =>
        Top(ctx).Stack =
            <<IF last.opcode = SAR /\ last.value >= WordMod \div 2 THEN WordMod - 1 ELSE 0>>

\* SAR of a negative word by exactly the width
C23_Witness ==
    /\ last.op = "exec" /\ last.opcode = SAR /\ last.shift = WordBits
    /\ last.value = WordMod - 2 /\ Top(ctx).Stack = <<WordMod - 1>>

\* C24: optimizing a trace again and again, each call on the result of the
\* call before, comes to a call that returns and reports modified = false
C24_FixedPoint == <>(last.calls > 0 /\ panicked = "" /\ ~last.modified)

\* the trace after the last call of Optimize, and the call itself
Root == hooks[1].CallStack[1]
Called(opts) == last.op = "Optimize" /\ last.calls > 0 /\ last.opts = opts /\ panicked = ""
\* node n with its operands replaced by the nodes F gives for them
WithArgs(n, F(_)) == [n EXCEPT !.args = [i \in DOMAIN n.args |-> F(n.args[i])]]

\* (CALLDATALOAD(0x0) >> 0xe0), whatever values its nodes have recorded
IsFuncSig(n) ==
    /\ n.kind = "BinaryOp" /\ n.OpCode = SHR
    /\ n.args[1].kind = "UnaryOp" /\ n.args[1].OpCode = CALLDATALOAD
    /\ n.args[1].args[1].kind = "Const" /\ n.args[1].args[1].Val = 0
    /\ n.args[2].kind = "Const" /\ n.args[2].Val = 224
RECURSIVE WithFuncSig(_)
WithFuncSig(n) == IF IsFuncSig(n) THEN Label("func_sig") ELSE WithArgs(n, WithFuncSig)

\* C25: Optimize with FunSig alone turns every (CALLDATALOAD(0x0) >> 0xe0)
\* of the trace, the root included and whatever values were recorded, into
\* the label func_sig, leaves every other node as it was, and reports
\* modified exactly when it replaced one
C25_FunSig ==
    Called(<<"FunSig">>) =>
        /\ Root = WithFuncSig(last.input)
        /\ last.modified = (Root # last.input)
C25_Witness ==
    /\ Called(<<"FunSig">>)
    /\ last.input = UnaryOp(ISZERO, 0,
                        BinaryOp(SHR, 7, UnaryOp(CALLDATALOAD, 7, Const(0)), Const(224)))
    /\ Root = UnaryOp(ISZERO, 0, Label("func_sig"))
    /\ last.modified

\* ADD(c, SUB(x, c')) or SUB(c, ADD(x, c')) with the constants c = c'
IsCounterBinary(n) ==
    /\ n.kind = "BinaryOp" /\ n.args[2].kind = "BinaryOp"
    /\ \/ n.OpCode = ADD /\ n.args[2].OpCode = SUB
       \/ n.OpCode = SUB /\ n.args[2].OpCode = ADD
    /\ n.args[1].kind = "Const" /\ n.args[2].args[2].kind = "Const"
    /\ n.args[1].Val = n.args[2].args[2].Val
\* the operands first, then the node itself
RECURSIVE WithoutCounterBinary(_)
WithoutCounterBinary(n) ==
    IF IsCounterBinary(WithArgs(n, WithoutCounterBinary))
    THEN WithArgs(n, WithoutCounterBinary).args[2].args[1]
    ELSE WithArgs(n, WithoutCounterBinary)

\* C26: Optimize with CounterBinaryOp alone replaces ADD(c, SUB(x, c')) and
\* SUB(c, ADD(x, c')) by x exactly when c and c' are equal constants; a node
\* with different constants, with an outer X that is no constant, or with
\* other opcodes stays as it is
C26_CounterBinaryOp ==
    Called(<<"CounterBinaryOp">>) =>
        /\ Root = WithoutCounterBinary(last.input)
        /\ last.modified = (Root # last.input)
C26_Witness ==
    /\ Called(<<"CounterBinaryOp">>)
    /\ last.input = BinaryOp(SUB, 0, Const(4), BinaryOp(ADD, 7, Label("x"), Const(4)))
    /\ Root = Label("x")
    /\ last.modified

\* op(op(x)) with op ISZERO or NOT
IsCounterUnary(n) ==
    /\ n.kind = "UnaryOp" /\ n.args[1].kind = "UnaryOp"
    /\ n.OpCode = n.args[1].OpCode
    /\ n.OpCode \in {ISZERO, NOT}
RECURSIVE WithoutCounterUnary(_)
WithoutCounterUnary(n) ==
    IF IsCounterUnary(WithArgs(n, WithoutCounterUnary))
    THEN WithArgs(n, WithoutCounterUnary).args[1].args[1]
    ELSE WithArgs(n, WithoutCounterUnary)
\* k times the one-operand operator op over x
RECURSIVE Nested(_, _, _)
Nested(op, k, x) == IF k = 0 THEN x ELSE UnaryOp(op, 0, Nested(op, k - 1, x))

\* C27: Optimize with CounterUnaryOp alone replaces op(op(x)) by x for op
\* ISZERO or NOT, a pair of different opcodes or of another opcode stays, and
\* so one call turns 2k nested ISZERO (or NOT) over x into x and 2k + 1 into
\* one
C27_CounterUnaryOp ==
    Called(<<"CounterUnaryOp">>) =>
        /\ Root = WithoutCounterUnary(last.input)
        /\ last.modified = (Root # last.input)
        /\ \A op \in {ISZERO, NOT, CALLDATALOAD} : \A k \in 2 .. MaxChain :
              last.input = Nested(op, k, Label("x")) =>
                  Root = IF op = CALLDATALOAD THEN last.input ELSE Nested(op, k % 2, Label("x"))
C27_Witness ==
    /\ Called(<<"CounterUnaryOp">>)
    /\ last.calls = 1
    /\ last.input = Nested(ISZERO, 4, Label("x"))
    /\ Root = Label("x")
    /\ last.modified

\* the recognised masks in the model's word: the low and the high 160 of 256
\* bits, the low and the high 128 of 256 bits, and every bit
RecognisedMasks ==
    { Pow2((160 * WordBits) \div 256) - 1,
      WordMod - Pow2(WordBits - (160 * WordBits) \div 256),
      Pow2((128 * WordBits) \div 256) - 1,
      WordMod - Pow2(WordBits - (128 * WordBits) \div 256),
      WordMod - 1 }
FoldsToMask(n) == EvaluateConst(n).ok /\ EvaluateConst(n).v \in RecognisedMasks
\* the operands first, then the AND itself: the other operand of an operand
\* that folds to a mask, X when both do
RECURSIVE WithoutSignCast(_)
WithoutSignCast(n) ==
    IF n.kind = "BinaryOp" /\ n.OpCode = AND
    THEN (IF FoldsToMask(WithoutSignCast(n.args[2])) THEN WithoutSignCast(n.args[1])
          ELSE IF FoldsToMask(WithoutSignCast(n.args[1])) THEN WithoutSignCast(n.args[2])
          ELSE WithArgs(n, WithoutSignCast))
    ELSE WithArgs(n, WithoutSignCast)

\* C28: Optimize with SignCast alone replaces an AND by its other operand
\* when one operand folds to a recognised mask, and leaves an AND alone when
\* neither does; ((CALLER << 3) & NOT((1 << 3) - 1)) becomes (CALLER << 3)
C28_SignCast ==
    Called(<<"SignCast">>) =>
        /\ Root = WithoutSignCast(last.input)
        /\ last.modified = (Root # last.input)
C28_Witness ==
    /\ Called(<<"SignCast">>)
    /\ last.input =
          BinaryOp(AND, 7, BinaryOp(SHL, 0, NullaryOp(CALLER), Const(3)),
                   UnaryOp(NOT, 0, BinaryOp(SUB, 0, BinaryOp(SHL, 0, Const(1), Const(3)),
                                            Const(1))))
    /\ Root = BinaryOp(SHL, 0, NullaryOp(CALLER), Const(3))
    /\ last.modified

\* node n without the values recorded on its operator nodes
RECURSIVE Structure(_)
Structure(n) ==
    IF n.kind \in {"UnaryOp", "BinaryOp"}
    THEN [WithArgs(n, Structure) EXCEPT !.Val = 0]
    ELSE n

\* C29: on nodes of UnaryOp, BinaryOp, Const and Label, Equal is reflexive,
\* symmetric and transitive, and holds exactly for two nodes of the same
\* variant, opcode, constant or label and equal operands, whatever values
\* their operator nodes have recorded
C29_EqualEquivalence ==
    (last.op = "Equal" /\ last.eq # << >>) =>
        /\ \A i \in 1 .. 3 : last.eq[i][i]
        /\ \A i \in 1 .. 3 : \A j \in 1 .. 3 : last.eq[i][j] = last.eq[j][i]
        /\ last.eq[1][2] /\ last.eq[2][3] => last.eq[1][3]
        /\ \A i \in 1 .. 3 : \A j \in 1 .. 3 :
              last.eq[i][j] = (Structure(last.nodes[i]) = Structure(last.nodes[j]))
C29_Witness ==
    /\ last.op = "Equal" /\ last.eq # << >>
    /\ last.nodes[1] = UnaryOp(ISZERO, 0, UnaryOp(ISZERO, 0, Const(0)))
    /\ last.nodes[2] = UnaryOp(ISZERO, 0, UnaryOp(ISZERO, 7, Const(0)))
    /\ last.nodes[3] = UnaryOp(ISZERO, 0, UnaryOp(ISZERO, 0, Label("x")))
    /\ last.eq[1][2] /\ last.eq[2][1] /\ ~last.eq[2][3] /\ ~last.eq[1][3]

\* C30: loading a serialized chain with an entry whose Type is no registered
\* hook type name returns an error and does not abort
C30_UnknownTypeIsError ==
    (/\ last.op = "UnmarshalJSON" /\ last.ended
     /\ \E i \in DOMAIN last.bs :
           /\ last.bs[i].json = "object" /\ last.bs[i].Type.json = "string"
           /\ last.bs[i].Type.s \notin map_hook_types)
    => panicked = "" /\ ret # NoErr

\* C31: the length of a frame's memory, which MSIZE pushes, is a multiple of
\* 32 and never decreases
C31_MemoryAligned ==
    [][\A i \in DOMAIN ctx'.CallStack :
          /\ MemLen(ctx'.CallStack[i].Memory) % 32 = 0
          /\ (i \in DOMAIN ctx.CallStack /\ Len(ctx'.CallStack) = Len(ctx.CallStack))
                => MemLen(ctx'.CallStack[i].Memory) >= MemLen(ctx.CallStack[i].Memory)]_vars

\* C33: with a HighLevelTracer attached at depth 1, after its PostRun of a
\* successful step its CallStack is as deep as the Context's, and the frame
\* it pushed for a CALL, DELEGATECALL or STATICCALL is the last Call node of
\* the trace of the frame that made the call
C33_SymbolicDepth ==
    \A i \in DOMAIN hooks :
        (hooks[i].type = "HighLevelTracer" /\ last.outcome = "ok") =>
            /\ Len(hooks[i].CallStack) = Len(ctx.CallStack)
            /\ (IsCallOp(last.op) /\ Len(ctx.CallStack) = last.depth + 1) =>
                  LET caller == hooks[i].CallStack[last.depth]
                  IN  /\ caller.List # << >>
                      /\ caller.List[Len(caller.List)].OpCode = last.op
                      /\ caller.List[Len(caller.List)].Target = CodeAddress(Top(ctx))

C33_Witness ==
    /\ last.outcome = "ok" /\ panicked = ""
    /\ last.op = DELEGATECALL /\ last.depth = 2
    /\ Len(ctx.CallStack) = 3
    /\ Len(hooks) = 1 /\ hooks[1].type = "HighLevelTracer"
    /\ Len(hooks[1].CallStack) = 3
    /\ Len(hooks[1].CallStack[1].List) = 1
    /\ hooks[1].CallStack[2].List = <<NewCall(DELEGATECALL, Addr.B)>>

\* C34: a CALL, DELEGATECALL or STATICCALL that pushes a frame leaves the
\* calling frame at the pc of the next instruction with the operands popped;
\* no step of the called frame touches it; the RETURN or STOP that pops the
\* called frame changes neither its pc nor its stack but for the 1 it pushes;
\* and every instruction is fetched from the code of the frame then on top
C34_CallReturn ==
    [][(Stepped /\ last'.outcome = "ok") =>
          LET d == Len(ctx.CallStack)
              caller == ctx'.CallStack[d]
          IN  /\ HasLine(CodeOf(ctx).Asm, Top(ctx).Pc)
              /\ last'.op = LineAtPc(CodeOf(ctx).Asm, Top(ctx).Pc).Op
              /\ last'.op = CodeOf(ctx).Binary[Top(ctx).Pc + 1]
              /\ \A i \in 1 .. d - 2 : ctx'.CallStack[i] = ctx.CallStack[i]
              /\ Len(ctx'.CallStack) >= d => \A i \in 1 .. d - 1 : ctx'.CallStack[i] = ctx.CallStack[i]
              /\ (IsCallOp(last'.op) /\ Len(ctx'.CallStack) = d + 1) =>
                    /\ caller.Pc = Top(ctx).Pc + 1
                    /\ caller.Stack = PopN(Top(ctx).Stack, CallOperands(last'.op, Top(ctx).Stack).n)
                    /\ HasLine(ctx'.Contracts[CodeAddress(caller)].Asm, caller.Pc)
              /\ (last'.op \in {RETURN, STOP} /\ d > 1) =>
                    /\ Len(ctx'.CallStack) = d - 1
                    /\ Top(ctx').Pc = ctx.CallStack[d - 1].Pc
                    /\ Top(ctx').Stack = Append(ctx.CallStack[d - 1].Stack, 1)
                    /\ ctx'.Contracts[CodeAddress(Top(ctx'))].Binary
                          = ctx.Contracts[CodeAddress(ctx.CallStack[d - 1])].Binary]_vars
\* the frame B called from A has returned: A goes on behind its CALL
C34_Witness ==
    /\ last.outcome = "ok" /\ last.op = RETURN /\ last.depth = 2
    /\ Len(ctx.CallStack) = 1
    /\ Top(ctx).This = Addr.A
    /\ ctx.Contracts[Addr.A].Binary = Prog.Calls
    /\ Top(ctx).Pc = 15
    /\ Top(ctx).Stack = <<1>>
    /\ LineAtPc(CodeOf(ctx).Asm, Top(ctx).Pc).Op = RETURNDATASIZE

\* C32: SHA3 of a range of size > 0 pushes the hash of exactly size bytes,
\* the stored bytes inside the memory and zero beyond its length, and MLOAD
\* pushes the 32 bytes read the same way (0 at or past the end of the memory)
C32_MemoryRead ==
    (hooks = << >> /\ last.outcome # "none" /\ last.op \in {SHA3, MLOAD}) =>
        LET f == last.before
            offset == PeekI(f.Stack, 0)
            size == IF last.op = SHA3 THEN PeekI(f.Stack, 1) ELSE 32
            read == MemoryBytes(f.Memory, offset, size)
            n == IF last.op = SHA3 THEN 2 ELSE 1
        IN  (Len(f.Stack) >= n /\ size > 0) =>
                /\ last.outcome = "ok"
                /\ Len(read) = size
                /\ last.after.Stack
                      = Append(PopN(f.Stack, n), IF last.op = SHA3 THEN Sha3(read) ELSE SetBytes(read))

\* C35: when the exec function fails because the resolver cannot supply
\* code, a storage slot, a balance or a block hash, the failing frame is left
\* with the pc, the stack and the memory it had before the step
C35_ResumableFailure ==
    (last.outcome = "exec"
     /\ ret.kind \in {"no code", "no storage", "no balance", "no block hash"}) =>
        /\ Len(ctx.CallStack) = last.depth
        /\ ~ctx.IsDone
        /\ Top(ctx).Pc = last.before.Pc
        /\ Top(ctx).Stack = last.before.Stack
        /\ Top(ctx).Memory = last.before.Memory

\* C36: when the PostRun of a HighLevelTracer is reached for CREATE, CREATE2,
\* CALLCODE, SELFDESTRUCT or EXTCODECOPY it returns the TODO error with the
\* opcode, Run returns that error, and nothing panics
C36_TodoError ==
    \A k \in DOMAIN last.log :
        (/\ last.log[k].ev = "PostRun"
         /\ hooks[last.log[k].h].type = "HighLevelTracer"
         /\ last.op \in Unsupported) =>
            /\ panicked = ""
            /\ last.log[k].err = Err("HighLevelTracer TODO", last.op, last.log[k].h)
            /\ last.outcome = "post"
            /\ ret.kind = "HighLevelTracer TODO"
            /\ ret.detail = last.op

\* C37: in every symbolic frame every entry memMap[k] is a Memory node whose
\* VmOffset is k; so RETURNDATACOPY and CODECOPY record their node under the
\* key memOffset
C37_MemMapKeys ==
    \A i \in DOMAIN hooks :
        hooks[i].type = "HighLevelTracer" =>
            \A d \in DOMAIN hooks[i].CallStack :
                \A k \in DOMAIN hooks[i].CallStack[d].MemMap :
                    hooks[i].CallStack[d].MemMap[k].VmOffset = k

\* C38: for a CALL with input or a STATICCALL of a precompile the tracer adds
\* a Precompiled node whose input is the memMap entry at the inOffset operand
\* and a Return node that is the entry it records at the retOffset operand,
\* with the bytes [retOffset, retOffset+retSize) of the memory after the
\* step, and pushes Const(1) in the place of the operands
C38_PrecompileTrace ==
    [][(/\ Stepped
        /\ last'.outcome = "ok"
        /\ last'.op \in {CALL, STATICCALL}
        /\ CallOperands(last'.op, Top(ctx).Stack).addr \in PrecompiledContractsBerlin
        /\ (last'.op = CALL => CallOperands(last'.op, Top(ctx).Stack).inSize # 0)) =>
          \A i \in DOMAIN hooks :
              hooks[i].type = "HighLevelTracer" =>
                  LET a == CallOperands(last'.op, Top(ctx).Stack)
                      d == Len(hooks[i].CallStack)
                      before == hooks[i].CallStack[d]
                      after == hooks'[i].CallStack[d]
                      n == Len(after.List)
                  IN  /\ Len(hooks'[i].CallStack) = d
                      /\ after.Stack = SubSeq(before.Stack, 1, Len(before.Stack) - a.n) \o <<"Const">>
                      /\ n = Len(before.List) + 2
                      /\ after.List[n - 1].kind = "Precompiled"
                      /\ after.List[n - 1].To = a.addr
                      /\ after.List[n - 1].Input = IF a.inOffset \in DOMAIN before.MemMap
                                                   THEN <<before.MemMap[a.inOffset]>> ELSE << >>
                      /\ after.List[n].kind = "Return"
                      /\ a.retOffset \in DOMAIN after.MemMap
                      /\ after.List[n].Memory = after.MemMap[a.retOffset]
                      /\ after.List[n].Memory.VmOffset = a.retOffset
                      /\ after.List[n].Memory.VmBytes
                            = MemoryBytes(last'.after.Memory, a.retOffset, a.retSize)]_vars

\* C39: the symbolic trace is a function of the concrete execution: two
\* tracers that follow the same execution from its start hold the same
\* symbolic frames after every step, the node an MLOAD pushed and recorded in
\* memMap included
C39_Deterministic ==
    panicked = "" =>
        \A i, j \in DOMAIN hooks :
            (hooks[i].type = "HighLevelTracer" /\ hooks[j].type = "HighLevelTracer") =>
                hooks[i].CallStack = hooks[j].CallStack

====
